---------------------------- MODULE Spec2Model ----------------------------
(***************************************************************************)
(* A model of the WhatsApp webhook relay (Express + Firestore +            *)
(* Cloudinary).  The repository holds three revisions of the server file:  *)
(*    "index"    src/index.js           (mirror + media pipeline)          *)
(*    "part_000" src/unnamed/part_000   (adds the chat log, admin chat     *)
(*                                       send and the chat history)        *)
(*    "part_001" src/unnamed/part_001   (adds delivery statuses, reads the *)
(*                                       verify token from the environment)*)
(* and one controller, src/controllers/whatsappController.js, which all    *)
(* three mount.  The variable server says which revision is running.       *)
(*                                                                         *)
(* A handler runs synchronously up to its next await; every action below   *)
(* is one such run: it takes the result of the awaited call (success or    *)
(* rejection), applies the call's effect on the store, and executes the    *)
(* synchronous code that follows up to the next await or to the response.  *)
(***************************************************************************)
EXTENDS Integers, Sequences, FiniteSets, TLC

VARIABLES
    server,                 \* which server file is running
    envVerifyToken,         \* process.env.WHATSAPP_VERIFY_TOKEN
    clock,                  \* the wall clock read by new Date()
    receivedMessagesStore,  \* the in-memory mirror
    whatsappChats,          \* Firestore: whatsappChats/{shortPhone}[/messages]
    teamRegistrations,      \* Firestore: teamRegistrations (sequence of documents)
    waDeliveryErrors,       \* Firestore: waDeliveryErrors
    cloudinary,             \* the object store: one entry per finished upload
    platform,               \* POSTs received by the messaging platform
    hook,                   \* the GET /webhook exchange being observed
    req,                    \* POST /webhook requests, by request id
    out,                    \* the outbound-handler exchange being observed
    hist                    \* the GET /api/chat/history exchange being observed

vars == << server, envVerifyToken, clock, receivedMessagesStore, whatsappChats,
           teamRegistrations, waDeliveryErrors, cloudinary, platform, hook,
           req, out, hist >>

-----------------------------------------------------------------------------
(* Bounds of the model *)

\* most items (messages plus statuses) in one payload
MaxItems == 2
\* the wall clock runs from 0 to MaxClock
MaxClock == 1
\* POST /webhook requests of one behaviour
MaxReqs == 2
\* most chat messages stored under one short identifier when a history read starts
MaxStored == 12
\* most outbound requests of one behaviour
MaxSends == 2

-----------------------------------------------------------------------------
(* JavaScript values *)

\* undefined: a query parameter, body field or environment variable that is not there
Undefined == "<undefined>"

\* JavaScript truthiness of a string-or-undefined value
Truthy(v) == v # Undefined /\ v # ""

Servers == {"index", "part_000", "part_001"}

\* a server response not yet sent
NoResponse == [sent |-> 0, status |-> 0, body |-> "<none>"]

\* res.status(s).send(b) / res.status(s).json(b) / res.sendStatus(s) on response r
Send(r, s, b) == [sent |-> r.sent + 1, status |-> s, body |-> b]

-----------------------------------------------------------------------------
(* GET /webhook : webhook verification *)

Modes == {Undefined, "", "subscribe", "unsubscribe"}
Tokens == {Undefined, "", "my_verify_token", "wrong_token"}
Challenges == {Undefined, "1158201444", "challenge_2"}

\* the secret the running server compares hub.verify_token with
VERIFY_TOKEN == IF server = "part_001" THEN envVerifyToken ELSE "my_verify_token"

\* res.send(challenge): Express sends an empty body for undefined
SendBody(challenge) == IF challenge = Undefined THEN "" ELSE challenge

\* a variant of verifyWebhookGuarded that answers 403 when mode or token is falsy
verifyWebhookAnswered(mode, token, challenge, secret) ==
    IF Truthy(mode) /\ Truthy(token) /\ mode = "subscribe" /\ token = secret
    THEN Send(NoResponse, 200, SendBody(challenge))
    ELSE Send(NoResponse, 403, "Forbidden")

\* src/index.js and src/unnamed/part_000: the outcome is empty when mode or token is falsy
verifyWebhookGuarded(mode, token, challenge, secret) ==
    IF Truthy(mode) /\ Truthy(token)
    THEN IF mode = "subscribe" /\ token = secret
         THEN Send(NoResponse, 200, SendBody(challenge))
         ELSE Send(NoResponse, 403, "Forbidden")
    ELSE NoResponse

\* src/unnamed/part_001: every request is answered
verifyWebhookEnv(mode, token, challenge, secret) ==
    IF mode = "subscribe" /\ token = secret
    THEN Send(NoResponse, 200, SendBody(challenge))
    ELSE Send(NoResponse, 403, "Forbidden")

verifyWebhook(mode, token, challenge) ==
    IF server = "part_001"
    THEN verifyWebhookEnv(mode, token, challenge, VERIFY_TOKEN)
    ELSE verifyWebhookGuarded(mode, token, challenge, VERIFY_TOKEN)

\* no GET /webhook request has been handled yet
NoHook == [n |-> 0, mode |-> Undefined, token |-> Undefined,
           challenge |-> Undefined, returned |-> FALSE, res |-> NoResponse]

\* one GET /webhook request, handled to the handler's return
GetWebhook ==
    \E mode \in Modes, token \in Tokens, challenge \in Challenges :
        /\ hook' = [n |-> 1, mode |-> mode, token |-> token,
                    challenge |-> challenge, returned |-> TRUE,
                    res |-> verifyWebhook(mode, token, challenge)]
        /\ UNCHANGED << server, envVerifyToken, clock, receivedMessagesStore,
                        whatsappChats, teamRegistrations, waDeliveryErrors,
                        cloudinary, platform, req, out, hist >>

-----------------------------------------------------------------------------
(* POST /webhook : the payload *)

\* from.slice(-10) keeps the last ShortLen characters
ShortLen == 10

\* String.prototype.slice(-10) on a sequence of digits
slice10(s) == IF Len(s) <= ShortLen THEN s ELSE SubSeq(s, Len(s) - ShortLen + 1, Len(s))

\* sender ids: with a country code (12 digits) and without (10 digits)
UserA == << 9, 1, 9, 8, 7, 6, 5, 4, 3, 2, 1, 0 >>
UserB == << 8, 8, 0, 0, 0, 0, 0, 0, 0, 1 >>
Users == {UserA, UserB}
ShortIds == {slice10(u) : u \in Users}

\* one element of value.messages; msg.from undefined is hasFrom = FALSE, from = <<>>
Msg(hasFrom, from, text, image) ==
    [hasFrom |-> hasFrom, from |-> from, text |-> text, image |-> image]

MsgKinds ==
    { Msg(TRUE, UserA, "hi", Undefined),          \* text
      Msg(TRUE, UserA, Undefined, "media_1"),     \* image
      Msg(TRUE, UserB, "hi", Undefined),
      Msg(TRUE, UserB, Undefined, "media_1"),
      Msg(TRUE, UserA, "hi", "media_1"),          \* text and image in one message
      Msg(TRUE, UserA, "yo", Undefined),          \* another text of the same sender
      Msg(FALSE, << >>, "hi", Undefined) }        \* no from field

\* one element of value.statuses; errors is "none" (absent), "empty" ([]) or "one"
StatusKinds ==
    { [id |-> "wamid_1", status |-> "delivered", errors |-> "none"],
      [id |-> "wamid_2", status |-> "failed", errors |-> "empty"],
      [id |-> "wamid_3", status |-> "failed", errors |-> "one"] }

SeqsUpTo(S, n) == UNION { [1..k -> S] : k \in 0..n }

\* how deep the envelope goes: body.entry, entry[0], .changes, changes[0], .value
Shapes == {"noEntry", "emptyEntry", "noChanges", "emptyChanges", "noValue", "value"}

Body(object, shape, hasMessages, messages, hasStatuses, statuses) ==
    [object |-> object, shape |-> shape, hasMessages |-> hasMessages,
     messages |-> messages, hasStatuses |-> hasStatuses, statuses |-> statuses]

\* the payloads with a value object: messages and statuses absent, empty or filled
ValueBodies(n) ==
    { b \in { Body(o, "value", hm, ms, hs, ss) :
                o \in BOOLEAN, hm \in BOOLEAN, hs \in BOOLEAN,
                ms \in SeqsUpTo(MsgKinds, n), ss \in SeqsUpTo(StatusKinds, n) } :
        /\ Len(b.messages) + Len(b.statuses) <= n
        /\ (~b.hasMessages => b.messages = << >>)
        /\ (~b.hasStatuses => b.statuses = << >>) }

\* payloads without a value object carry no messages and no statuses
Bodies ==
    { Body(o, sh, FALSE, << >>, FALSE, << >>) :
        o \in BOOLEAN, sh \in Shapes \ {"value"} }
    \cup ValueBodies(MaxItems)

NoBody == Body(FALSE, "noEntry", FALSE, << >>, FALSE, << >>)

\* the local state of a POST /webhook handler that has not been called
Idle == [pc |-> "idle", body |-> NoBody, i |-> 0, j |-> 0, timestamp |-> 0,
         url |-> 0, ref |-> 0, res |-> NoResponse, ev |-> << >>,
         chatsBefore |-> << >>]

\* a record of the handler's trace: the awaited call op of item i settled with ok
Ev(i, op, ok, n) == [item |-> i, op |-> op, ok |-> ok, n |-> n]

\* what the handler and the stores it changed look like after a run
After(l, mirror) == [l |-> l, mirror |-> mirror]

\* a variant of Throw whose catch answers as if nothing had happened
ThrowSwallowed(l, mirror) ==
    After([l EXCEPT !.pc = "done", !.res = Send(l.res, 200, "received")], mirror)

\* the outermost catch: res.status(500).json({ error: "Internal Server Error" })
Throw(l, mirror) ==
    After([l EXCEPT !.pc = "done",
                    !.res = Send(l.res, 500, "Internal Server Error")], mirror)

\* const shortPhone = from.slice(-10)   (part_001: from?.slice(-10) || "")
shortPhone(msg) == IF msg.hasFrom THEN slice10(msg.from) ELSE << >>

TextEntry(msg, ts) ==
    [from |-> msg.from, kind |-> "text", text |-> msg.text, timestamp |-> ts,
     mediaId |-> Undefined, url |-> 0]

ImageEntry(msg, ts, url) ==
    [from |-> msg.from, kind |-> "image", text |-> "[Image]", timestamp |-> ts,
     mediaId |-> msg.image, url |-> url]

RECURSIVE NextStatus(_, _, _)
\* the statuses loop of part_001 reaches statuses[j]
NextStatus(l, mirror, j) ==
    IF j > Len(l.body.statuses)
    THEN After([l EXCEPT !.pc = "done", !.j = j, !.res = Send(l.res, 200, "OK")], mirror)
    ELSE IF l.body.statuses[j].errors = "one"
         THEN After([l EXCEPT !.pc = "persist", !.j = j], mirror)
         ELSE NextStatus(l, mirror, j + 1)

\* the code after the messages loop
AfterMessages(l, mirror) ==
    IF server = "part_001"
    THEN NextStatus(l, mirror, 1)
    ELSE After([l EXCEPT !.pc = "done", !.res = Send(l.res, 200, "received")], mirror)

RECURSIVE NextMessage(_, _, _)
\* the code after the text branch of message i: the image branch, or the next message
AfterText(l, mirror, i) ==
    IF Truthy(l.body.messages[i].image)
    THEN After([l EXCEPT !.pc = "fetch"], mirror)
    ELSE NextMessage(l, mirror, i + 1)

\* the messages loop reaches messages[i]
NextMessage(l, mirror, i) ==
    IF i > Len(l.body.messages)
    THEN AfterMessages([l EXCEPT !.i = i], mirror)
    ELSE LET msg == l.body.messages[i]
             l1 == [l EXCEPT !.i = i, !.timestamp = clock]
         IN  IF ~msg.hasFrom /\ server # "part_001"
             THEN Throw(l1, mirror)            \* from.slice on undefined
             ELSE IF Truthy(msg.text)
                  THEN IF server = "part_000"
                       THEN After([l1 EXCEPT !.pc = "add"],
                                  Append(mirror, TextEntry(msg, clock)))
                       ELSE AfterText(l1, Append(mirror, TextEntry(msg, clock)), i)
                  ELSE AfterText(l1, mirror, i)

\* a variant of envelopeIndex without the "if (!messages)" early return
envelopeIndexUnchecked(body) ==
    IF ~(body.object /\ body.shape # "noEntry") THEN "404"
    ELSE IF body.shape \in {"emptyEntry", "noChanges", "noValue"} THEN "throw"
    ELSE "loop"

\* src/index.js: body.object && body.entry, then body.entry[0].changes[0]?.value.messages
envelopeIndex(body) ==
    IF ~(body.object /\ body.shape # "noEntry") THEN "404"
    ELSE IF body.shape \in {"emptyEntry", "noChanges", "noValue"} THEN "throw"
    ELSE IF body.shape = "emptyChanges" \/ ~body.hasMessages THEN "no messages"
    ELSE "loop"

\* src/unnamed/part_000: body.object && body.entry, then body.entry?.[0]?.changes?.[0]?.value
envelopeChats(body) ==
    IF ~(body.object /\ body.shape # "noEntry") THEN "404"
    ELSE IF body.shape # "value" \/ ~body.hasMessages THEN "no messages"
    ELSE "loop"

\* src/unnamed/part_001: req.body?.entry?.[0]?.changes?.[0]?.value, nothing else
envelopeStatuses(body) ==
    IF body.shape # "value" THEN "404" ELSE "loop"

envelope(body) ==
    CASE server = "index"    -> envelopeIndex(body)
      [] server = "part_000" -> envelopeChats(body)
      [] server = "part_001" -> envelopeStatuses(body)

\* a variant of postWebhook whose "no messages" return sends nothing
postWebhookSilent(body, mirror) ==
    LET l == [Idle EXCEPT !.body = body, !.chatsBefore = whatsappChats]
        e == envelope(body)
    IN  CASE e = "404" ->
               After([l EXCEPT !.pc = "done",
                               !.res = Send(l.res, 404, "Invalid payload")], mirror)
          [] e = "throw" -> Throw(l, mirror)
          [] e = "no messages" -> After([l EXCEPT !.pc = "done"], mirror)
          [] e = "loop" -> NextMessage(l, mirror, 1)

\* the handler's first run: from the call to the first await or to the response
postWebhook(body, mirror) ==
    LET l == [Idle EXCEPT !.body = body, !.chatsBefore = whatsappChats]
        e == envelope(body)
    IN  CASE e = "404" ->
               After([l EXCEPT !.pc = "done",
                               !.res = Send(l.res, 404, "Invalid payload")], mirror)
          [] e = "throw" -> Throw(l, mirror)
          [] e = "no messages" ->
               After([l EXCEPT !.pc = "done",
                               !.res = Send(l.res, 200, "no messages")], mirror)
          [] e = "loop" -> NextMessage(l, mirror, 1)

-----------------------------------------------------------------------------
(* POST /webhook : the stores and the awaited calls *)

\* whatsappChats/{shortPhone}: the parent document and its messages subcollection
\* (other stands for every field of the parent that this server does not write)
NoChat == [exists |-> FALSE, lastUpdated |-> -1, other |-> Undefined, messages |-> << >>]

\* the document added to whatsappChats/{shortPhone}/messages
ChatEntry(from, text, ts) ==
    [from |-> from, text |-> text, timestamp |-> ts, read |-> FALSE, type |-> "text"]

\* .doc(sp): the chat stored under document id sp, empty if nothing was written
chatOf(chats, sp) == IF sp \in DOMAIN chats THEN chats[sp] ELSE NoChat

\* the chats with the one under document id sp replaced by c
putChat(chats, sp, c) ==
    [k \in DOMAIN chats \cup {sp} |-> IF k = sp THEN c ELSE chats[k]]

\* a variant of addMessage that writes the entry in place of those stored already
addMessageReplacing(chats, sp, entry) ==
    putChat(chats, sp, [chatOf(chats, sp) EXCEPT !.messages = << entry >>])

\* a variant of addMessage that puts the entry before those stored already
addMessageFirst(chats, sp, entry) ==
    putChat(chats, sp, [chatOf(chats, sp) EXCEPT !.messages = << entry >> \o @])

\* a variant of addMessage that drops an entry whose sender and text are stored already
addMessageDeduplicated(chats, sp, entry) ==
    IF \E n \in 1..Len(chatOf(chats, sp).messages) :
           /\ chatOf(chats, sp).messages[n].from = entry.from
           /\ chatOf(chats, sp).messages[n].text = entry.text
    THEN chats
    ELSE putChat(chats, sp, [chatOf(chats, sp) EXCEPT !.messages = Append(@, entry)])

\* .collection("messages").add(entry): the parent document is not touched
addMessage(chats, sp, entry) ==
    putChat(chats, sp, [chatOf(chats, sp) EXCEPT !.messages = Append(@, entry)])

\* a variant of setLastUpdated that never moves the stamp back
setLastUpdatedNewest(chats, sp, ts) ==
    putChat(chats, sp, [chatOf(chats, sp) EXCEPT
                           !.exists = TRUE,
                           !.lastUpdated = IF @ > ts THEN @ ELSE ts])

\* a variant of setLastUpdated without { merge: true }: the document is replaced
setLastUpdatedReplacing(chats, sp, ts) ==
    putChat(chats, sp, [chatOf(chats, sp) EXCEPT !.exists = TRUE, !.lastUpdated = ts,
                                                 !.other = Undefined])

\* .doc(shortPhone).set({ lastUpdated }, { merge: true }): creates the parent if absent
\* and leaves every other field of an existing parent as it is
setLastUpdated(chats, sp, ts) ==
    putChat(chats, sp, [chatOf(chats, sp) EXCEPT !.exists = TRUE, !.lastUpdated = ts])

\* a teamRegistrations document; image 0 stands for a URL stored before
RegDoc(phone) ==
    [phoneNumber |-> phone, images |-> << 0 >>, verificationStatus |-> "unset",
     updatedAt |-> -1]

\* .where("phoneNumber", "==", shortPhone).get(): the matching documents, in order
whereMatches(regs, sp) ==
    SelectSeq([k \in 1..Len(regs) |-> k], LAMBDA k : regs[k].phoneNumber = sp)

\* FieldValue.arrayUnion(url)
arrayUnion(images, url) ==
    IF \E k \in 1..Len(images) : images[k] = url THEN images ELSE Append(images, url)

\* a variant of updateRegistration that stores the URL in place of the stored ones
updateRegistrationReplacing(regs, ref, url, ts) ==
    [regs EXCEPT ![ref].images = << url >>,
                 ![ref].verificationStatus = "image_uploaded",
                 ![ref].updatedAt = IF server = "part_000" THEN ts ELSE @]

\* a variant of updateRegistration that writes the whole collection back, computed
\* from the document as it was when the server started: the last write wins
updateRegistrationLastWins(regs, ref, url, ts) ==
    [regs EXCEPT ![ref].images = arrayUnion(RegDoc(regs[ref].phoneNumber).images, url),
                 ![ref].verificationStatus = "image_uploaded",
                 ![ref].updatedAt = IF server = "part_000" THEN ts ELSE @]

\* docRef.update({ images: arrayUnion(url), verificationStatus, [updatedAt] })
updateRegistration(regs, ref, url, ts) ==
    [regs EXCEPT ![ref].images = arrayUnion(@, url),
                 ![ref].verificationStatus = "image_uploaded",
                 ![ref].updatedAt = IF server = "part_000" THEN ts ELSE @]

\* the handler of request r, resumed: its new local state and the mirror
Resume(r, a) ==
    /\ req' = [req EXCEPT ![r] = a.l]
    /\ receivedMessagesStore' = a.mirror

\* the local state of r with the settled call logged
Logged(r, op, ok, n) ==
    [req[r] EXCEPT !.ev = Append(@, Ev(req[r].i, op, ok, n))]

CurMsg(r) == req[r].body.messages[req[r].i]

\* POST /webhook arrives: the handler runs to its first await or to its response
Receive(r, body) ==
    /\ req[r].pc = "idle"
    /\ Resume(r, postWebhook(body, receivedMessagesStore))
    /\ UNCHANGED << server, envVerifyToken, clock, whatsappChats, teamRegistrations,
                    waDeliveryErrors, cloudinary, platform, hook, out, hist >>

\* a variant of AwaitAdd that writes the chat log back as the handler saw it when
\* the request arrived, with the new entry appended
AwaitAddStale(r) ==
    /\ req[r].pc = "add"
    /\ \E ok \in BOOLEAN :
         LET l == Logged(r, "add", ok, 0)
             msg == CurMsg(r)
         IN  IF ok
             THEN /\ whatsappChats' = addMessage(req[r].chatsBefore, shortPhone(msg),
                                          ChatEntry("user", msg.text, l.timestamp))
                  /\ Resume(r, After([l EXCEPT !.pc = "set"], receivedMessagesStore))
             ELSE /\ UNCHANGED whatsappChats
                  /\ Resume(r, Throw(l, receivedMessagesStore))
    /\ UNCHANGED << server, envVerifyToken, clock, teamRegistrations,
                    waDeliveryErrors, cloudinary, platform, hook, out, hist >>

\* part_000: await ...collection("messages").add({...}) settles
AwaitAdd(r) ==
    /\ req[r].pc = "add"
    /\ \E ok \in BOOLEAN :
         LET l == Logged(r, "add", ok, 0)
             msg == CurMsg(r)
         IN  IF ok
             THEN /\ whatsappChats' = addMessage(whatsappChats, shortPhone(msg),
                                          ChatEntry("user", msg.text, l.timestamp))
                  /\ Resume(r, After([l EXCEPT !.pc = "set"], receivedMessagesStore))
             ELSE /\ UNCHANGED whatsappChats
                  /\ Resume(r, Throw(l, receivedMessagesStore))
    /\ UNCHANGED << server, envVerifyToken, clock, teamRegistrations,
                    waDeliveryErrors, cloudinary, platform, hook, out, hist >>

\* part_000: await ...doc(shortPhone).set({ lastUpdated }, { merge: true }) settles
AwaitSet(r) ==
    /\ req[r].pc = "set"
    /\ \E ok \in BOOLEAN :
         LET l == Logged(r, "set", ok, 0)
             msg == CurMsg(r)
         IN  IF ok
             THEN /\ whatsappChats' = setLastUpdated(whatsappChats, shortPhone(msg),
                                                     l.timestamp)
                  /\ Resume(r, AfterText(l, receivedMessagesStore, l.i))
             ELSE /\ UNCHANGED whatsappChats
                  /\ Resume(r, Throw(l, receivedMessagesStore))
    /\ UNCHANGED << server, envVerifyToken, clock, teamRegistrations,
                    waDeliveryErrors, cloudinary, platform, hook, out, hist >>

\* a variant of AwaitFetch whose rejection is not caught by the inner try
AwaitFetchUncaught(r) ==
    /\ req[r].pc = "fetch"
    /\ \E ok \in BOOLEAN :
         LET l == Logged(r, "fetch", ok, 0)
         IN  IF ok
             THEN Resume(r, After([l EXCEPT !.pc = "download"], receivedMessagesStore))
             ELSE Resume(r, Throw(l, receivedMessagesStore))
    /\ UNCHANGED << server, envVerifyToken, clock, whatsappChats, teamRegistrations,
                    waDeliveryErrors, cloudinary, platform, hook, out, hist >>

\* media pipeline 1: await axios.get(graph/{mediaId}) settles; a rejection is caught
AwaitFetch(r) ==
    /\ req[r].pc = "fetch"
    /\ \E ok \in BOOLEAN :
         LET l == Logged(r, "fetch", ok, 0)
         IN  IF ok
             THEN Resume(r, After([l EXCEPT !.pc = "download"], receivedMessagesStore))
             ELSE Resume(r, NextMessage(l, receivedMessagesStore, l.i + 1))
    /\ UNCHANGED << server, envVerifyToken, clock, whatsappChats, teamRegistrations,
                    waDeliveryErrors, cloudinary, platform, hook, out, hist >>

\* media pipeline 2: await axios.get(mediaUrl, arraybuffer) settles
AwaitDownload(r) ==
    /\ req[r].pc = "download"
    /\ \E ok \in BOOLEAN :
         LET l == Logged(r, "download", ok, 0)
         IN  IF ok
             THEN Resume(r, After([l EXCEPT !.pc = "upload"], receivedMessagesStore))
             ELSE Resume(r, NextMessage(l, receivedMessagesStore, l.i + 1))
    /\ UNCHANGED << server, envVerifyToken, clock, whatsappChats, teamRegistrations,
                    waDeliveryErrors, cloudinary, platform, hook, out, hist >>

\* a variant of AwaitUpload that also records the uploaded image in the chat log
AwaitUploadLogged(r) ==
    /\ req[r].pc = "upload"
    /\ \E ok \in BOOLEAN :
         LET l == Logged(r, "upload", ok, IF ok THEN Len(cloudinary) + 1 ELSE 0)
             msg == CurMsg(r)
         IN  IF ok
             THEN /\ cloudinary' = Append(cloudinary,
                                     [folder |-> shortPhone(msg), mediaId |-> msg.image])
                  /\ whatsappChats' = addMessage(whatsappChats, shortPhone(msg),
                                          ChatEntry("user", "[Image]", l.timestamp))
                  /\ Resume(r, After([l EXCEPT !.pc = "query",
                                               !.url = Len(cloudinary) + 1],
                                     receivedMessagesStore))
             ELSE /\ UNCHANGED << cloudinary, whatsappChats >>
                  /\ Resume(r, NextMessage(l, receivedMessagesStore, l.i + 1))
    /\ UNCHANGED << server, envVerifyToken, clock, teamRegistrations,
                    waDeliveryErrors, platform, hook, out, hist >>

\* media pipeline 3: the upload_stream callback runs; secure_url is the object's index
AwaitUpload(r) ==
    /\ req[r].pc = "upload"
    /\ \E ok \in BOOLEAN :
         LET l == Logged(r, "upload", ok, IF ok THEN Len(cloudinary) + 1 ELSE 0)
             msg == CurMsg(r)
         IN  IF ok
             THEN /\ cloudinary' = Append(cloudinary,
                                     [folder |-> shortPhone(msg), mediaId |-> msg.image])
                  /\ Resume(r, After([l EXCEPT !.pc = "query",
                                               !.url = Len(cloudinary) + 1],
                                     receivedMessagesStore))
             ELSE /\ UNCHANGED cloudinary
                  /\ Resume(r, NextMessage(l, receivedMessagesStore, l.i + 1))
    /\ UNCHANGED << server, envVerifyToken, clock, whatsappChats, teamRegistrations,
                    waDeliveryErrors, platform, hook, out, hist >>

\* a variant of AwaitQuery without the "querySnapshot.empty" test: docs[0].ref of
\* an empty snapshot raises inside the try, and the mirror entry is skipped
AwaitQueryUnchecked(r) ==
    /\ req[r].pc = "query"
    /\ \E ok \in BOOLEAN :
         LET msg == CurMsg(r)
             docs == whereMatches(teamRegistrations, shortPhone(msg))
             l == Logged(r, "query", ok, IF ok THEN Len(docs) ELSE 0)
         IN  IF ok /\ docs # << >>
             THEN Resume(r, After([l EXCEPT !.pc = "update", !.ref = docs[1]],
                                  receivedMessagesStore))
             ELSE Resume(r, NextMessage(l, receivedMessagesStore, l.i + 1))
    /\ UNCHANGED << server, envVerifyToken, clock, whatsappChats, teamRegistrations,
                    waDeliveryErrors, cloudinary, platform, hook, out, hist >>

\* media pipeline 4a: the teamRegistrations query settles
AwaitQuery(r) ==
    /\ req[r].pc = "query"
    /\ \E ok \in BOOLEAN :
         LET msg == CurMsg(r)
             docs == whereMatches(teamRegistrations, shortPhone(msg))
             l == Logged(r, "query", ok, IF ok THEN Len(docs) ELSE 0)
         IN  IF ~ok
             THEN Resume(r, NextMessage(l, receivedMessagesStore, l.i + 1))
             ELSE IF docs # << >>
                  THEN Resume(r, After([l EXCEPT !.pc = "update", !.ref = docs[1]],
                                       receivedMessagesStore))
                  ELSE Resume(r, NextMessage(l,
                                   Append(receivedMessagesStore,
                                          ImageEntry(msg, l.timestamp, l.url)),
                                   l.i + 1))
    /\ UNCHANGED << server, envVerifyToken, clock, whatsappChats, teamRegistrations,
                    waDeliveryErrors, cloudinary, platform, hook, out, hist >>

\* a variant of AwaitUpdate that appends the mirror entry outside the try, whether
\* or not the update went through
AwaitUpdateReported(r) ==
    /\ req[r].pc = "update"
    /\ \E ok \in BOOLEAN :
         LET l == Logged(r, "update", ok, 0)
             msg == CurMsg(r)
         IN  /\ teamRegistrations' =
                    IF ok THEN updateRegistration(teamRegistrations, l.ref, l.url,
                                                  l.timestamp)
                          ELSE teamRegistrations
             /\ Resume(r, NextMessage(l,
                              Append(receivedMessagesStore,
                                     ImageEntry(msg, l.timestamp, l.url)),
                              l.i + 1))
    /\ UNCHANGED << server, envVerifyToken, clock, whatsappChats,
                    waDeliveryErrors, cloudinary, platform, hook, out, hist >>

\* media pipeline 4b: docRef.update(...) settles
AwaitUpdate(r) ==
    /\ req[r].pc = "update"
    /\ \E ok \in BOOLEAN :
         LET l == Logged(r, "update", ok, 0)
             msg == CurMsg(r)
         IN  IF ok
             THEN /\ teamRegistrations' =
                        updateRegistration(teamRegistrations, l.ref, l.url, l.timestamp)
                  /\ Resume(r, NextMessage(l,
                                   Append(receivedMessagesStore,
                                          ImageEntry(msg, l.timestamp, l.url)),
                                   l.i + 1))
             ELSE /\ UNCHANGED teamRegistrations
                  /\ Resume(r, NextMessage(l, receivedMessagesStore, l.i + 1))
    /\ UNCHANGED << server, envVerifyToken, clock, whatsappChats,
                    waDeliveryErrors, cloudinary, platform, hook, out, hist >>

\* a variant of AwaitPersist whose rejection is not caught by the inner try
AwaitPersistUncaught(r) ==
    /\ req[r].pc = "persist"
    /\ \E ok \in BOOLEAN :
         LET l == [req[r] EXCEPT !.ev = Append(@, Ev(req[r].j, "persist", ok, 0))]
             s == l.body.statuses[l.j]
         IN  IF ok
             THEN /\ waDeliveryErrors' =
                        Append(waDeliveryErrors, [id |-> s.id, status |-> s.status])
                  /\ Resume(r, NextStatus(l, receivedMessagesStore, l.j + 1))
             ELSE /\ UNCHANGED waDeliveryErrors
                  /\ Resume(r, Throw(l, receivedMessagesStore))
    /\ UNCHANGED << server, envVerifyToken, clock, whatsappChats, teamRegistrations,
                    cloudinary, platform, hook, out, hist >>

\* part_001: await db.collection("waDeliveryErrors").add(...) settles; a rejection is caught
AwaitPersist(r) ==
    /\ req[r].pc = "persist"
    /\ \E ok \in BOOLEAN :
         LET l == [req[r] EXCEPT !.ev = Append(@, Ev(req[r].j, "persist", ok, 0))]
             s == l.body.statuses[l.j]
         IN  /\ waDeliveryErrors' =
                    IF ok THEN Append(waDeliveryErrors, [id |-> s.id, status |-> s.status])
                          ELSE waDeliveryErrors
             /\ Resume(r, NextStatus(l, receivedMessagesStore, l.j + 1))
    /\ UNCHANGED << server, envVerifyToken, clock, whatsappChats, teamRegistrations,
                    cloudinary, platform, hook, out, hist >>

\* time passes
Tick ==
    /\ clock < MaxClock
    /\ clock' = clock + 1
    /\ UNCHANGED << server, envVerifyToken, receivedMessagesStore, whatsappChats,
                    teamRegistrations, waDeliveryErrors, cloudinary, platform, hook,
                    req, out, hist >>

-----------------------------------------------------------------------------
(* GET /api/chat/history/:phoneNumber (src/unnamed/part_000) *)

\* .limit(10)
HistoryLimit == 10

\* document a comes before document b under orderBy("timestamp", "desc"); documents
\* with equal timestamps follow their auto-generated ids, which are random: tie says
\* whether the ids happen to ascend or to descend along the stored sequence
Before(log, tie, a, b) ==
    \/ log[a].timestamp > log[b].timestamp
    \/ /\ log[a].timestamp = log[b].timestamp
       /\ IF tie = "asc" THEN a < b ELSE a > b

\* .orderBy("timestamp", "desc")
orderByTimestampDesc(log, tie) ==
    [k \in 1..Len(log) |->
        log[CHOOSE n \in 1..Len(log) :
                Cardinality({m \in 1..Len(log) : Before(log, tie, m, n)}) = k - 1]]

\* .limit(n)
limit(s, n) == SubSeq(s, 1, IF Len(s) < n THEN Len(s) ELSE n)

\* Array.prototype.reverse
reverse(s) == [k \in 1..Len(s) |-> s[Len(s) + 1 - k]]

\* a variant of chatHistory that forgets to reverse the query result
chatHistoryNewestFirst(log, tie) ==
    limit(orderByTimestampDesc(log, tie), HistoryLimit)

\* messagesSnapshot.docs.map((doc) => doc.data()).reverse()
chatHistory(log, tie) ==
    reverse(limit(orderByTimestampDesc(log, tie), HistoryLimit))

\* no GET /api/chat/history request has arrived
NoHist == [pc |-> "idle", phoneNumber |-> << >>, res |-> NoResponse,
           messages |-> << >>, failed |-> FALSE]

\* the request arrives: the handler runs to await ...doc(shortPhone).get()
GetHistory ==
    /\ server = "part_000"
    /\ hist.pc = "idle"
    /\ \E phoneNumber \in Users :
          hist' = [hist EXCEPT !.pc = "get", !.phoneNumber = phoneNumber]
    /\ UNCHANGED << server, envVerifyToken, clock, receivedMessagesStore, whatsappChats,
                    teamRegistrations, waDeliveryErrors, cloudinary, platform, hook,
                    req, out >>

\* the catch of the history handler
historyFailed(h) ==
    [h EXCEPT !.pc = "done", !.failed = TRUE,
              !.res = Send(h.res, 500, "Failed to fetch chat history")]

\* chatDoc settles: without a parent document the answer is an empty list
AwaitChatDoc ==
    /\ hist.pc = "get"
    /\ \E ok \in BOOLEAN :
          hist' = IF ~ok THEN historyFailed(hist)
                  ELSE IF ~chatOf(whatsappChats, slice10(hist.phoneNumber)).exists
                       THEN [hist EXCEPT !.pc = "done", !.messages = << >>,
                                         !.res = Send(hist.res, 200, "messages")]
                       ELSE [hist EXCEPT !.pc = "query"]
    /\ UNCHANGED << server, envVerifyToken, clock, receivedMessagesStore, whatsappChats,
                    teamRegistrations, waDeliveryErrors, cloudinary, platform, hook,
                    req, out >>

\* messagesSnapshot settles: the answer is the reversed query result
AwaitSnapshot ==
    /\ hist.pc = "query"
    /\ \E ok \in BOOLEAN, tie \in {"asc", "desc"} :
          hist' = IF ~ok THEN historyFailed(hist)
                  ELSE [hist EXCEPT
                          !.pc = "done",
                          !.messages =
                              chatHistory(
                                  chatOf(whatsappChats, slice10(hist.phoneNumber)).messages,
                                  tie),
                          !.res = Send(hist.res, 200, "messages")]
    /\ UNCHANGED << server, envVerifyToken, clock, receivedMessagesStore, whatsappChats,
                    teamRegistrations, waDeliveryErrors, cloudinary, platform, hook,
                    req, out >>

-----------------------------------------------------------------------------
(* The outbound send handlers *)

\* characters of a phone number field that are not digits
Space == 10
Plus == 11

\* a body field holding a string (a sequence of characters) or missing
Field(has, val) == [has |-> has, val |-> val]

\* !field: the field is missing or the empty string
Falsy(f) == ~f.has \/ f.val = << >>

\* "+91 8800000001"
SpacedB == << Plus, 9, 1, Space >> \o UserB

PhoneFields == { Field(FALSE, << >>), Field(TRUE, << >>),
                 Field(TRUE, UserA), Field(TRUE, SpacedB) }
MessageFields == { Undefined, "", "hello" }

\* phone.replace(/\s+/g, "")
stripSpaces(v) == SelectSeq(v, LAMBDA c : c # Space)

\* String(v).replace(/[^\d]/g, "")
toDigits(v) == SelectSeq(v, LAMBDA c : c \in 0..9)

\* the recipient the server puts in the POST: the controller strips white space,
\* part_001's sendTemplateMessage keeps the digits, the others pass the field on
recipient(route, v) ==
    IF route = "send-whatsapp" THEN stripSpaces(v)
    ELSE IF route # "chat/send" /\ server = "part_001" THEN toDigits(v)
    ELSE v

\* the template each route sends
templateName(route) ==
    CASE route = "send-whatsapp"       -> "colabgreeting"
      [] route = "verify/verified"     -> "verified"
      [] route = "verify/not-verified" ->
             IF server = "part_001" THEN "not_verfied" ELSE "not_verified"
      [] route = "verify/pending"      -> "pending"

VerifyRoutes == {"verify/verified", "verify/not-verified", "verify/pending"}

\* no outbound request has arrived
NoOut == [pc |-> "idle", n |-> 0, route |-> "none", phone |-> Field(FALSE, << >>),
          message |-> Undefined, timestamp |-> 0, res |-> NoResponse,
          details |-> [of |-> "none", wrapped |-> FALSE, json |-> FALSE],
          callsBefore |-> 0, chatsBefore |-> << >>, ev |-> << >>]

\* the handler of the n-th outbound request is called
Called(route, phone, message) ==
    [NoOut EXCEPT !.n = out.n + 1, !.route = route, !.phone = phone,
                  !.message = message, !.callsBefore = Len(platform),
                  !.chatsBefore = whatsappChats]

\* a variant of chatSendInvalid that tests the phone number alone
chatSendInvalidPhoneOnly(phoneNumber, message) == Falsy(phoneNumber)

\* if (!phoneNumber || !message)
chatSendInvalid(phoneNumber, message) == Falsy(phoneNumber) \/ ~Truthy(message)

\* the handler's first run: the 400, or the POST is made and awaited
FirstRun(o, invalid, error, post) ==
    IF invalid
    THEN /\ out' = [o EXCEPT !.pc = "done", !.res = Send(o.res, 400, error)]
         /\ UNCHANGED platform
    ELSE /\ out' = [o EXCEPT !.pc = "post"]
         /\ platform' = Append(platform, post)

\* POST /api/send-whatsapp (the controller, mounted by every server file)
PostSendWhatsapp ==
    /\ out.pc \in {"idle", "done"}
    /\ out.n < MaxSends
    /\ \E phone \in PhoneFields :
          FirstRun(Called("send-whatsapp", phone, Undefined), Falsy(phone),
                   "User phone number is required",
                   [to |-> recipient("send-whatsapp", phone.val), type |-> "template",
                    content |-> templateName("send-whatsapp")])
    /\ UNCHANGED << server, envVerifyToken, clock, receivedMessagesStore, whatsappChats,
                    teamRegistrations, waDeliveryErrors, cloudinary, hook, req, hist >>

\* POST /api/verify/{verified, not-verified, pending}: handleVerify, up to the
\* await in sendTemplateMessage
PostVerify ==
    /\ server \in {"part_000", "part_001"}
    /\ out.pc \in {"idle", "done"}
    /\ out.n < MaxSends
    /\ \E route \in VerifyRoutes, phone \in PhoneFields :
          FirstRun(Called(route, phone, Undefined), Falsy(phone),
                   "Phone number is required",
                   [to |-> recipient(route, phone.val), type |-> "template",
                    content |-> templateName(route)])
    /\ UNCHANGED << server, envVerifyToken, clock, receivedMessagesStore, whatsappChats,
                    teamRegistrations, waDeliveryErrors, cloudinary, hook, req, hist >>

\* POST /api/chat/send (part_000), up to await axios.post
PostChatSend ==
    /\ server = "part_000"
    /\ out.pc \in {"idle", "done"}
    /\ out.n < MaxSends
    /\ \E phone \in PhoneFields, message \in MessageFields :
          FirstRun(Called("chat/send", phone, message), chatSendInvalid(phone, message),
                   "phoneNumber and message are required",
                   [to |-> recipient("chat/send", phone.val), type |-> "text",
                    content |-> message])
    /\ UNCHANGED << server, envVerifyToken, clock, receivedMessagesStore, whatsappChats,
                    teamRegistrations, waDeliveryErrors, cloudinary, hook, req, hist >>

\* how the awaited POST can settle: a 2xx response, a non-2xx response carrying the
\* platform's error body, or no response at all (network failure, timeout)
PostOutcomes == {"ok", "rejected", "network"}

\* the awaited call op of the outbound handler settled with outcome
Settled(o, op, outcome) == [o EXCEPT !.ev = Append(@, [op |-> op, outcome |-> outcome])]

\* no error detail in the response
NoDetail == [of |-> "none", wrapped |-> FALSE, json |-> FALSE]

\* error.response?.data || error.message: the remote error body if there is one,
\* else the transport error message
caughtDetail(outcome) ==
    [of |-> IF outcome = "rejected" THEN "remote" ELSE "transport",
     wrapped |-> FALSE, json |-> FALSE]

\* sendTemplateMessage's catch: throw new Error(JSON.stringify(...)); part_001 wraps
\* the transport error message in { message }
thrownDetail(outcome) ==
    [of |-> IF outcome = "rejected" THEN "remote" ELSE "transport",
     wrapped |-> (server = "part_001" /\ outcome # "rejected"),
     json |-> TRUE]

\* the catch of an outbound handler after the POST failed: the controller answers
\* { error: <detail> }, handleVerify { error, details: error.message }, the chat
\* send { error } alone
postFailed(o, outcome) ==
    [o EXCEPT !.pc = "done",
              !.res = Send(o.res, 500, IF o.route = "send-whatsapp"
                                       THEN "<detail>"
                                       ELSE "Failed to send WhatsApp message"),
              !.details = CASE o.route = "send-whatsapp" -> caughtDetail(outcome)
                            [] o.route = "chat/send"     -> NoDetail
                            [] OTHER                     -> thrownDetail(outcome)]

\* the catch of the chat send after a chat-log call failed
outboundFailed(o) ==
    [o EXCEPT !.pc = "done", !.res = Send(o.res, 500, "Failed to send WhatsApp message")]

\* a variant of AwaitPost that makes the POST once more when it failed
AwaitPostRetried ==
    /\ out.pc = "post"
    /\ \E outcome \in PostOutcomes :
          LET o == Settled(out, "post", outcome)
          IN  IF outcome # "ok" /\ out.ev = << >>
              THEN /\ out' = o
                   /\ platform' = Append(platform, platform[Len(platform)])
              ELSE /\ out' = IF outcome # "ok" THEN postFailed(o, outcome)
                             ELSE IF o.route = "chat/send"
                                  THEN [o EXCEPT !.pc = "add", !.timestamp = clock]
                                  ELSE [o EXCEPT !.pc = "done",
                                                 !.res = Send(o.res, 200, "success")]
                   /\ UNCHANGED platform
    /\ UNCHANGED << server, envVerifyToken, clock, receivedMessagesStore, whatsappChats,
                    teamRegistrations, waDeliveryErrors, cloudinary, hook, req, hist >>

\* the POST settles: the template routes answer, the chat send goes on to the chat log
AwaitPost ==
    /\ out.pc = "post"
    /\ \E outcome \in PostOutcomes :
          LET o == Settled(out, "post", outcome)
          IN  out' = IF outcome # "ok" THEN postFailed(o, outcome)
                     ELSE IF o.route = "chat/send"
                          THEN [o EXCEPT !.pc = "add", !.timestamp = clock]
                          ELSE [o EXCEPT !.pc = "done", !.res = Send(o.res, 200, "success")]
    /\ UNCHANGED << server, envVerifyToken, clock, receivedMessagesStore, whatsappChats,
                    teamRegistrations, waDeliveryErrors, cloudinary, platform, hook,
                    req, hist >>

\* chat send: await ...collection("messages").add({ from: "admin", ... }) settles
AwaitAdminAdd ==
    /\ out.pc = "add"
    /\ \E ok \in BOOLEAN :
          LET o == Settled(out, "add", IF ok THEN "ok" ELSE "failed")
          IN  IF ok
              THEN /\ whatsappChats' = addMessage(whatsappChats, slice10(o.phone.val),
                                           ChatEntry("admin", o.message, o.timestamp))
                   /\ out' = [o EXCEPT !.pc = "set"]
              ELSE /\ UNCHANGED whatsappChats
                   /\ out' = outboundFailed(o)
    /\ UNCHANGED << server, envVerifyToken, clock, receivedMessagesStore,
                    teamRegistrations, waDeliveryErrors, cloudinary, platform, hook,
                    req, hist >>

\* chat send: await ...set({ lastUpdated }, { merge: true }) settles
AwaitAdminSet ==
    /\ out.pc = "set"
    /\ \E ok \in BOOLEAN :
          LET o == Settled(out, "set", IF ok THEN "ok" ELSE "failed")
          IN  IF ok
              THEN /\ whatsappChats' = setLastUpdated(whatsappChats, slice10(o.phone.val),
                                                      o.timestamp)
                   /\ out' = [o EXCEPT !.pc = "done", !.res = Send(o.res, 200, "success")]
              ELSE /\ UNCHANGED whatsappChats
                   /\ out' = outboundFailed(o)
    /\ UNCHANGED << server, envVerifyToken, clock, receivedMessagesStore,
                    teamRegistrations, waDeliveryErrors, cloudinary, platform, hook,
                    req, hist >>

-----------------------------------------------------------------------------
(* Initial states and specifications *)


\* a registered phone number that sends nothing
OtherPhone == << 7, 0, 0, 0, 0, 0, 0, 0, 0, 2 >>

\* registrations are created by another system before any image arrives: none, or
\* one of another phone followed by two of UserA (UserB is never registered)
RegConfigs ==
    { << >>,
      << RegDoc(OtherPhone), RegDoc(slice10(UserA)), RegDoc(slice10(UserA)) >> }

\* the state of a freshly started server
Start(regs, tokens) ==
    /\ server \in Servers
    /\ envVerifyToken \in (IF server = "part_001" THEN tokens ELSE {Undefined})
    /\ clock = 0
    /\ receivedMessagesStore = << >>
    /\ whatsappChats = [sp \in ShortIds |-> NoChat]
    /\ teamRegistrations \in regs
    /\ waDeliveryErrors = << >>
    /\ cloudinary = << >>
    /\ platform = << >>
    /\ hook = NoHook
    /\ req = [r \in 1..MaxReqs |-> Idle]
    /\ out = NoOut
    /\ hist = NoHist

Init == Start(RegConfigs, {"my_verify_token"})

RECURSIVE WrittenUpTo(_, _)
\* how many of the stored entries were written at time t or before, c[u] at time u
WrittenUpTo(c, t) == IF t < 0 THEN 0 ELSE c[t] + WrittenUpTo(c, t - 1)

\* the timestamps of n entries in the order they were written
Stamps(c, n) ==
    [k \in 1..n |->
        CHOOSE t \in 0..MaxClock : WrittenUpTo(c, t - 1) < k /\ k <= WrittenUpTo(c, t)]

\* the sequence s started k places later: document ids are random, so the order
\* in which the store holds the entries is not the order they were written in
Rotate(s, k) == [i \in 1..Len(s) |-> s[((i + k - 1) % Len(s)) + 1]]

\* the chat logs of up to MaxStored entries, written by users and by the admin
StoredLogs ==
    UNION { { Rotate([i \in 1..n |->
                         ChatEntry(IF i % 2 = 1 THEN "user" ELSE "admin",
                                   ToString(i), Stamps(c, n)[i])], k) :
                c \in {d \in [0..MaxClock -> 0..n] : WrittenUpTo(d, MaxClock) = n},
                k \in 0..(IF n = 0 THEN 0 ELSE n - 1) } :
            n \in 0..MaxStored }

\* the chat documents of UserA when a history request arrives: the parent document
\* exists once a set() went through, which needs a stored message before it
StoredChats ==
    UNION { { [sp \in ShortIds |->
                  IF sp = slice10(UserA)
                  THEN [exists |-> e, messages |-> log, other |-> Undefined,
                        lastUpdated |-> IF e THEN log[Len(log)].timestamp ELSE -1]
                  ELSE NoChat] :
                e \in (IF log = << >> THEN {FALSE} ELSE BOOLEAN) } :
            log \in StoredLogs }

\* webhook verification alone
InitVerify == Start({<< >>}, {Undefined, "my_verify_token"})
NextVerify == GetWebhook
SpecVerify == InitVerify /\ [][NextVerify]_vars

\* one POST /webhook request, any payload, any failure of an awaited call; the
\* clock stands still while it is handled
NextIngest ==
    \/ \E body \in Bodies : Receive(1, body)
    \/ AwaitAdd(1)
    \/ AwaitSet(1)
    \/ AwaitFetch(1)
    \/ AwaitDownload(1)
    \/ AwaitUpload(1)
    \/ AwaitQuery(1)
    \/ AwaitUpdate(1)
    \/ AwaitPersist(1)
SpecIngest == Init /\ [][NextIngest]_vars

\* the same, where every awaited call settles in the end (fulfilled or rejected),
\* and the continuation of a settled call is run by the event loop
SpecIngestFair ==
    /\ Init /\ [][NextIngest]_vars
    /\ WF_vars(AwaitAdd(1)) /\ WF_vars(AwaitSet(1))
    /\ WF_vars(AwaitFetch(1)) /\ WF_vars(AwaitDownload(1)) /\ WF_vars(AwaitUpload(1))
    /\ WF_vars(AwaitQuery(1)) /\ WF_vars(AwaitUpdate(1)) /\ WF_vars(AwaitPersist(1))

\* payloads of text messages only
TextBodies ==
    { Body(TRUE, "value", TRUE, ms, FALSE, << >>) :
        ms \in SeqsUpTo({Msg(TRUE, UserA, "hi", Undefined),
                         Msg(TRUE, UserB, "hi", Undefined)}, MaxItems) \ {<< >>} }

\* a text payload is delivered, and delivered again each time it has been answered
NextResubmit ==
    \/ \E body \in TextBodies : Receive(1, body)
    \/ \E r \in 2..MaxReqs :
          /\ req[r - 1].pc = "done"
          /\ Receive(r, req[r - 1].body)
    \/ \E r \in 1..MaxReqs : AwaitAdd(r)
    \/ \E r \in 1..MaxReqs : AwaitSet(r)
    \/ Tick
SpecResubmit == Init /\ [][NextResubmit]_vars

\* the chat documents when a text arrives: none, or UserA's parent document exists
\* with a field written by another system and one message of the admin
TextChats ==
    { [sp \in ShortIds |-> NoChat],
      [sp \in ShortIds |->
          IF sp = slice10(UserA)
          THEN [exists |-> TRUE, lastUpdated |-> 0, other |-> "Team A",
                messages |-> << ChatEntry("admin", "welcome", 0) >>]
          ELSE NoChat] }

\* one POST /webhook request with text messages only, while time passes
InitText ==
    /\ server \in Servers
    /\ envVerifyToken = Undefined
    /\ clock = 0
    /\ receivedMessagesStore = << >>
    /\ whatsappChats \in TextChats
    /\ teamRegistrations = << >>
    /\ waDeliveryErrors = << >>
    /\ cloudinary = << >>
    /\ platform = << >>
    /\ hook = NoHook
    /\ req = [r \in 1..MaxReqs |-> Idle]
    /\ out = NoOut
    /\ hist = NoHist
NextText ==
    \/ \E body \in TextBodies : Receive(1, body)
    \/ AwaitAdd(1)
    \/ AwaitSet(1)
    \/ Tick
SpecText == InitText /\ [][NextText]_vars

\* part_000: everything that touches the chat records, interleaved: one inbound
\* text, one admin chat send and one history read, while time passes
InitChat ==
    /\ server = "part_000"
    /\ envVerifyToken = Undefined
    /\ clock = 0
    /\ receivedMessagesStore = << >>
    /\ whatsappChats \in TextChats
    /\ teamRegistrations = << >>
    /\ waDeliveryErrors = << >>
    /\ cloudinary = << >>
    /\ platform = << >>
    /\ hook = NoHook
    /\ req = [r \in 1..MaxReqs |-> Idle]
    /\ out = NoOut
    /\ hist = NoHist
NextChat ==
    \/ \E body \in TextBodies : Len(body.messages) = 1 /\ Receive(1, body)
    \/ AwaitAdd(1)
    \/ AwaitSet(1)
    \/ (out.pc = "idle" /\ PostChatSend)
    \/ AwaitPost
    \/ AwaitAdminAdd
    \/ AwaitAdminSet
    \/ GetHistory
    \/ AwaitChatDoc
    \/ AwaitSnapshot
    \/ Tick
SpecChat == InitChat /\ [][NextChat]_vars

\* payloads of texts of one sender
SameSenderBodies ==
    { Body(TRUE, "value", TRUE, ms, FALSE, << >>) :
        ms \in SeqsUpTo({Msg(TRUE, UserA, "hi", Undefined),
                         Msg(TRUE, UserA, "yo", Undefined)}, MaxItems) \ {<< >>} }

\* two deliveries for one short identifier handled at the same time: each handler
\* runs from one await to the next, in any interleaving, while time passes; the two
\* payloads carry MaxItems + 1 messages at most between them
NextConcurrent ==
    \/ \E r \in {1, 2}, body \in SameSenderBodies :
          /\ Len(body.messages) + Len(req[3 - r].body.messages) <= MaxItems + 1
          /\ Receive(r, body)
    \/ \E r \in {1, 2} : AwaitAdd(r)
    \/ \E r \in {1, 2} : AwaitSet(r)
    \/ Tick
SpecConcurrent == InitText /\ [][NextConcurrent]_vars

\* payloads of one image message
ImageBodies ==
    { Body(TRUE, "value", TRUE, << m >>, FALSE, << >>) :
        m \in {k \in MsgKinds : Truthy(k.image) /\ ~Truthy(k.text)} }

\* everything that calls a remote service: the media pipeline of one image
\* delivery, and after it the outbound requests, one after another
NextCalls ==
    \/ out.n = 0 /\ \E body \in ImageBodies : Receive(1, body)
    \/ out.n = 0 /\ AwaitFetch(1)
    \/ out.n = 0 /\ AwaitDownload(1)
    \/ out.n = 0 /\ AwaitUpload(1)
    \/ out.n = 0 /\ AwaitQuery(1)
    \/ out.n = 0 /\ AwaitUpdate(1)
    \/ req[1].pc \in {"idle", "done"} /\ PostSendWhatsapp
    \/ req[1].pc \in {"idle", "done"} /\ PostVerify
    \/ req[1].pc \in {"idle", "done"} /\ PostChatSend
    \/ AwaitPost
    \/ AwaitAdminAdd
    \/ AwaitAdminSet
SpecCalls == Init /\ [][NextCalls]_vars

\* payloads of messages with an image reference and no text body
ImageOnlyBodies ==
    { Body(TRUE, "value", TRUE, ms, FALSE, << >>) :
        ms \in SeqsUpTo({k \in MsgKinds : Truthy(k.image) /\ ~Truthy(k.text)},
                        MaxItems) \ {<< >>} }

\* one delivery of images, to a server whose stores hold chats and registrations
InitImage ==
    /\ server \in Servers
    /\ envVerifyToken = Undefined
    /\ clock = 0
    /\ receivedMessagesStore = << >>
    /\ whatsappChats \in TextChats
    /\ teamRegistrations \in RegConfigs
    /\ waDeliveryErrors = << >>
    /\ cloudinary = << >>
    /\ platform = << >>
    /\ hook = NoHook
    /\ req = [r \in 1..MaxReqs |-> Idle]
    /\ out = NoOut
    /\ hist = NoHist
NextImage ==
    \/ \E body \in ImageOnlyBodies : Receive(1, body)
    \/ AwaitFetch(1)
    \/ AwaitDownload(1)
    \/ AwaitUpload(1)
    \/ AwaitQuery(1)
    \/ AwaitUpdate(1)
    \/ Tick
SpecImage == InitImage /\ [][NextImage]_vars

\* two deliveries of one image each handled at the same time: each media pipeline
\* runs from one await to the next, in any interleaving, while time passes
NextImages ==
    \/ \E r \in {1, 2}, body \in ImageBodies : Receive(r, body)
    \/ \E r \in {1, 2} : AwaitFetch(r)
    \/ \E r \in {1, 2} : AwaitDownload(r)
    \/ \E r \in {1, 2} : AwaitUpload(r)
    \/ \E r \in {1, 2} : AwaitQuery(r)
    \/ \E r \in {1, 2} : AwaitUpdate(r)
    \/ Tick
SpecImages == InitImage /\ [][NextImages]_vars

\* the chat history read alone, from any stored chat log
InitHistory ==
    /\ server = "part_000"
    /\ envVerifyToken = Undefined
    /\ clock = MaxClock
    /\ receivedMessagesStore = << >>
    /\ whatsappChats \in StoredChats
    /\ teamRegistrations = << >>
    /\ waDeliveryErrors = << >>
    /\ cloudinary = << >>
    /\ platform = << >>
    /\ hook = NoHook
    /\ req = [r \in 1..MaxReqs |-> Idle]
    /\ out = NoOut
    /\ hist = NoHist
NextHistory == GetHistory \/ AwaitChatDoc \/ AwaitSnapshot
SpecHistory == InitHistory /\ [][NextHistory]_vars

\* outbound requests handled one after another, while time passes
InitOutbound == Start({<< >>}, {"my_verify_token"})
NextOutbound ==
    \/ PostSendWhatsapp
    \/ PostVerify
    \/ PostChatSend
    \/ AwaitPost
    \/ AwaitAdminAdd
    \/ AwaitAdminSet
    \/ Tick
SpecOutbound == InitOutbound /\ [][NextOutbound]_vars

-----------------------------------------------------------------------------
(* Claims about GET /webhook, under SpecVerify *)

\* C1 (as claimed): a request with hub.mode = "subscribe" and hub.verify_token equal
\* to the configured secret is answered 200 with the supplied hub.challenge as body,
\* and a request whose verify_token is present but differs from the secret is
\* answered 403.
C1_Claim ==
    hook.returned =>
        /\ (hook.mode = "subscribe" /\ hook.token = VERIFY_TOKEN) =>
              /\ hook.res.sent = 1
              /\ hook.res.status = 200
              /\ (hook.challenge # Undefined => hook.res.body = hook.challenge)
        /\ (hook.token # Undefined /\ hook.token # VERIFY_TOKEN) =>
              (hook.res.sent = 1 /\ hook.res.status = 403)

\* C10 (as claimed): when hub.mode or hub.verify_token is absent the handler returns
\* without sending a response.
C10_Claim ==
    (hook.returned /\ (hook.mode = Undefined \/ hook.token = Undefined)) =>
        hook.res.sent = 0

\* C10 (amended): in src/index.js and src/unnamed/part_000 the handler returns
\* without sending a response when hub.mode or hub.verify_token is absent or empty;
\* in src/unnamed/part_001 every request is answered exactly once, with 200 when
\* mode is "subscribe" and the token equals the configured secret (an unset secret
\* equals an absent token) and with 403 otherwise.
C10_Amended ==
    (hook.returned /\ (~Truthy(hook.mode) \/ ~Truthy(hook.token))) =>
        IF server = "part_001"
        THEN /\ hook.res.sent = 1
             /\ hook.res.status =
                    (IF hook.mode = "subscribe" /\ hook.token = envVerifyToken
                     THEN 200 ELSE 403)
        ELSE hook.res = NoResponse

\* C10 witness: src/index.js has handled a request without hub.mode and sent nothing
C10_Witness ==
    /\ hook.returned
    /\ server = "index"
    /\ hook.mode = Undefined
    /\ hook.token = "my_verify_token"
    /\ hook.res.sent = 0

-----------------------------------------------------------------------------
(* Claims about POST /webhook, under SpecIngest (request 1) *)

\* the payload has the envelope the platform sends and every message has a sender
WellFormed(body) ==
    /\ body.object
    /\ body.shape = "value"
    /\ \A k \in 1..Len(body.messages) : body.messages[k].hasFrom

\* the payload lacks the top-level object marker or the entry marker
LacksMarkers(body) == ~body.object \/ body.shape = "noEntry"

\* no store differs from what it was when the server started
StoresUntouched ==
    /\ receivedMessagesStore = << >>
    /\ whatsappChats = [sp \in ShortIds |-> NoChat]
    /\ cloudinary = << >>
    /\ waDeliveryErrors = << >>
    /\ \A k \in 1..Len(teamRegistrations) :
           teamRegistrations[k] = RegDoc(teamRegistrations[k].phoneNumber)

\* an awaited call with an operation in ops, made for item k by handler l, was rejected
Failed(l, k, ops) ==
    \E n \in 1..Len(l.ev) : l.ev[n].item = k /\ l.ev[n].op \in ops /\ ~l.ev[n].ok

\* the awaited call op made for item k by handler l was fulfilled
Fulfilled(l, k, op) ==
    \E n \in 1..Len(l.ev) : l.ev[n].item = k /\ l.ev[n].op = op /\ l.ev[n].ok

\* the result logged for the fulfilled call op of item k: the uploaded object's URL
\* (op = "upload") or the number of matching registrations (op = "query")
Result(l, k, op) ==
    LET n == CHOOSE n \in 1..Len(l.ev) :
                 l.ev[n].item = k /\ l.ev[n].op = op /\ l.ev[n].ok
    IN  l.ev[n].n

PipelineOps == {"fetch", "download", "upload", "query", "update"}
ChatOps == {"add", "set"}

\* C2 (as claimed): a payload without the object marker or without the entry marker
\* is answered 404 by the handler's first run, and no store is written.
C2_Claim ==
    (req[1].pc # "idle" /\ LacksMarkers(req[1].body)) =>
        /\ req[1].pc = "done"
        /\ req[1].res = Send(NoResponse, 404, "Invalid payload")
        /\ StoresUntouched

\* C3 (as claimed): a well-formed payload whose messages array is empty or absent is
\* answered 200 with the "no messages" indicator and no store is written.
C3_Claim ==
    (req[1].pc # "idle" /\ WellFormed(req[1].body) /\ req[1].body.messages = << >>) =>
        /\ StoresUntouched
        /\ req[1].pc = "done" => req[1].res = Send(NoResponse, 200, "no messages")

\* C3 (amended): a well-formed payload whose messages array is empty or absent is
\* answered 200 exactly once, and the mirror, the chat log, the registration records
\* and the object store stay unchanged.  The body is the "no messages" indicator
\* only under src/index.js and src/unnamed/part_000 and only when messages is
\* absent; they answer "received" to an empty array, and src/unnamed/part_001
\* answers a bare 200 ("OK") in both cases.  The delivery-error log is unchanged
\* unless part_001 finds a status with an error payload in the same payload.
C3_Amended ==
    LET l == req[1]
    IN  (l.pc # "idle" /\ WellFormed(l.body) /\ l.body.messages = << >>) =>
            /\ receivedMessagesStore = << >>
            /\ whatsappChats = [sp \in ShortIds |-> NoChat]
            /\ cloudinary = << >>
            /\ \A k \in 1..Len(teamRegistrations) :
                   teamRegistrations[k] = RegDoc(teamRegistrations[k].phoneNumber)
            /\ (server # "part_001"
                  \/ \A j \in 1..Len(l.body.statuses) : l.body.statuses[j].errors # "one")
                 => (waDeliveryErrors = << >> /\ l.pc = "done")
            /\ l.pc = "done" =>
                 l.res = Send(NoResponse, 200,
                              IF server = "part_001" THEN "OK"
                              ELSE IF l.body.hasMessages THEN "received"
                              ELSE "no messages")

\* C3 witness: part_000 has answered a payload without a messages array
C3_Witness ==
    /\ server = "part_000"
    /\ req[1].pc = "done"
    /\ WellFormed(req[1].body)
    /\ ~req[1].body.hasMessages
    /\ req[1].res.status = 200
    /\ req[1].res.body = "no messages"

\* C4 (as claimed): a well-formed payload with a messages or a statuses array is
\* answered 200, whichever awaited call of an item was rejected.
C4_Claim ==
    LET l == req[1]
    IN  (l.pc = "done" /\ WellFormed(l.body)
           /\ (l.body.hasMessages \/ l.body.hasStatuses)) =>
            (l.res.sent = 1 /\ l.res.status = 200)

\* what the mirror shows of an entry (the timestamp is left out)
Shown(e) == [from |-> e.from, kind |-> e.kind, text |-> e.text,
             mediaId |-> e.mediaId, url |-> e.url]

RECURSIVE ExpectedMirror(_, _)
\* the mirror entries messages 1..k must have left: the text of every message with a
\* text body, and the image of every message whose own pipeline had no rejected call
ExpectedMirror(l, k) ==
    IF k = 0 THEN << >>
    ELSE LET msg == l.body.messages[k]
         IN  ExpectedMirror(l, k - 1)
             \o (IF Truthy(msg.text) THEN << Shown(TextEntry(msg, 0)) >> ELSE << >>)
             \o (IF Truthy(msg.image) /\ ~Failed(l, k, PipelineOps)
                 THEN << Shown(ImageEntry(msg, 0, Result(l, k, "upload"))) >>
                 ELSE << >>)

\* the messages of the payload with a text body sent from short identifier sp
TextsFrom(body, sp) ==
    SelectSeq(body.messages, LAMBDA m : Truthy(m.text) /\ shortPhone(m) = sp)

\* C5: when the media pipeline of a message fails at any step, the messages after it
\* are still processed and the request is answered 200.  For a request whose
\* messages all have a sender and whose chat-log calls were not rejected: the answer
\* is 200; the mirror holds, in array order, the text of every text message and the
\* image of every image message whose own pipeline did not fail; under part_000 the
\* chat log holds one entry per text message; every image whose upload was fulfilled
\* is in the object store, and, when its own pipeline did not fail and a registration
\* matches, its URL is on the first matching registration.
C5_LaterMessagesProcessed ==
    LET l == req[1]
        msgs == l.body.messages
    IN  (l.pc = "done" /\ envelope(l.body) = "loop"
           /\ (\A k \in 1..Len(msgs) : msgs[k].hasFrom /\ ~Failed(l, k, ChatOps))) =>
            /\ l.res.sent = 1 /\ l.res.status = 200
            /\ [n \in 1..Len(receivedMessagesStore) |-> Shown(receivedMessagesStore[n])]
                  = ExpectedMirror(l, Len(msgs))
            /\ server = "part_000" =>
                 \A sp \in ShortIds :
                    /\ Len(whatsappChats[sp].messages) = Len(TextsFrom(l.body, sp))
                    /\ \A n \in 1..Len(whatsappChats[sp].messages) :
                          /\ whatsappChats[sp].messages[n].from = "user"
                          /\ whatsappChats[sp].messages[n].text = TextsFrom(l.body, sp)[n].text
            /\ \A k \in 1..Len(msgs) :
                 /\ (Truthy(msgs[k].image) /\ ~Failed(l, k, {"fetch", "download", "upload"})) =>
                       /\ Fulfilled(l, k, "upload")
                       /\ Result(l, k, "upload") \in 1..Len(cloudinary)
                       /\ cloudinary[Result(l, k, "upload")] =
                             [folder |-> shortPhone(msgs[k]), mediaId |-> msgs[k].image]
                 /\ (Truthy(msgs[k].image) /\ ~Failed(l, k, PipelineOps)
                       /\ whereMatches(teamRegistrations, shortPhone(msgs[k])) # << >>) =>
                       LET d == teamRegistrations[
                                    whereMatches(teamRegistrations, shortPhone(msgs[k]))[1]]
                       IN  /\ \E n \in 1..Len(d.images) :
                                  d.images[n] = Result(l, k, "upload")
                           /\ d.verificationStatus = "image_uploaded"

\* C5 witness: under part_000 the media-URL fetch of message 1 was rejected, and
\* message 2 (a text and an image of a registered sender) is in the mirror, in the
\* chat log, in the object store and on the registration; the answer is 200
C5_Witness ==
    LET l == req[1]
    IN  /\ server = "part_000"
        /\ l.pc = "done"
        /\ Len(l.body.messages) = 2
        /\ Failed(l, 1, {"fetch"})
        /\ l.body.messages[2] = Msg(TRUE, UserA, "hi", "media_1")
        /\ l.res.status = 200
        /\ Len(receivedMessagesStore) = 2
        /\ receivedMessagesStore[2].kind = "image"
        /\ Len(whatsappChats[slice10(UserA)].messages) = 1
        /\ Len(cloudinary) = 1
        /\ Len(teamRegistrations) = 3
        /\ teamRegistrations[2].images = << 0, 1 >>

\* C6: an image whose sender matches no registration record is uploaded, no
\* registration is updated or created for it, the lookup raises nothing (a 500 has
\* another cause: a rejected chat-log call or a message without a sender), its
\* mirror entry is appended, and the request is answered 200.
C6_ZeroMatches ==
    LET l == req[1]
        msgs == l.body.messages
    IN  \A k \in 1..Len(msgs) :
          (l.pc # "idle" /\ Fulfilled(l, k, "query") /\ Result(l, k, "query") = 0) =>
            LET url == Result(l, k, "upload")
            IN  /\ Fulfilled(l, k, "upload")
                /\ url \in 1..Len(cloudinary)
                /\ cloudinary[url] =
                      [folder |-> shortPhone(msgs[k]), mediaId |-> msgs[k].image]
                /\ ~ \E n \in 1..Len(l.ev) : l.ev[n].item = k /\ l.ev[n].op = "update"
                /\ whereMatches(teamRegistrations, shortPhone(msgs[k])) = << >>
                /\ \A d \in 1..Len(teamRegistrations) :
                       \A n \in 1..Len(teamRegistrations[d].images) :
                           teamRegistrations[d].images[n] # url
                /\ \E n \in 1..Len(receivedMessagesStore) :
                       Shown(receivedMessagesStore[n]) = Shown(ImageEntry(msgs[k], 0, url))
                /\ l.pc = "done" =>
                      \/ l.res = Send(NoResponse, 200,
                                      IF server = "part_001" THEN "OK" ELSE "received")
                      \/ /\ l.res.status = 500
                         /\ \E m \in 1..Len(msgs) :
                                ~msgs[m].hasFrom \/ Failed(l, m, ChatOps)

\* C6 witness: an image of a sender without registration, among registrations of
\* others, was uploaded and mirrored, and the request was answered 200
C6_Witness ==
    LET l == req[1]
    IN  /\ l.pc = "done"
        /\ Len(teamRegistrations) = 3
        /\ l.body.messages = << Msg(TRUE, UserB, Undefined, "media_1") >>
        /\ server = "index"
        /\ Fulfilled(l, 1, "query")
        /\ Result(l, 1, "query") = 0
        /\ Len(cloudinary) = 1
        /\ Len(receivedMessagesStore) = 1
        /\ l.res.status = 200

-----------------------------------------------------------------------------
(* Claims about repeated deliveries, under SpecResubmit *)

\* requests 1 and 2 carried the same payload, both were answered, no awaited call of
\* either was rejected, and no other request has arrived
SameTwice ==
    /\ req[1].pc = "done" /\ req[2].pc = "done"
    /\ req[1].body = req[2].body
    /\ \A r \in 1..2 : \A n \in 1..Len(req[r].ev) : req[r].ev[n].ok
    /\ \A r \in 3..MaxReqs : req[r].pc = "idle"

\* C9: ingestion does not deduplicate.  After the same text payload was submitted
\* twice in sequence without failures, the mirror holds the payload's entries twice,
\* and under part_000 the ChatRecord of every sender holds the entries of the first
\* submission followed by those of the second, as separate documents tagged from: user.
C9_NoDeduplication ==
    SameTwice =>
        LET b == req[1].body
            m == Len(b.messages)
        IN  /\ Len(receivedMessagesStore) = 2 * m
            /\ \A n \in 1..m :
                  /\ Shown(receivedMessagesStore[n]) = Shown(TextEntry(b.messages[n], 0))
                  /\ Shown(receivedMessagesStore[n + m]) = Shown(TextEntry(b.messages[n], 0))
            /\ server = "part_000" =>
                 \A sp \in ShortIds :
                    LET c == Len(TextsFrom(b, sp))
                        log == whatsappChats[sp].messages
                    IN  /\ Len(log) = 2 * c
                        /\ \A n \in 1..c :
                              /\ log[n].from = "user" /\ log[n + c].from = "user"
                              /\ log[n].text = TextsFrom(b, sp)[n].text
                              /\ log[n + c].text = TextsFrom(b, sp)[n].text

\* C9 witness: under part_000 a one-message payload was submitted twice within the
\* same millisecond; the ChatRecord holds two entries that are equal field by field
C9_Witness ==
    /\ SameTwice
    /\ server = "part_000"
    /\ req[1].body.messages = << Msg(TRUE, UserA, "hi", Undefined) >>
    /\ Len(whatsappChats[slice10(UserA)].messages) = 2
    /\ whatsappChats[slice10(UserA)].messages[1] = whatsappChats[slice10(UserA)].messages[2]
    /\ Len(receivedMessagesStore) = 2

-----------------------------------------------------------------------------
(* Claims about GET /api/chat/history, under SpecHistory *)

\* the smaller of two numbers
Min(a, b) == IF a < b THEN a ELSE b

\* C7: when both reads are fulfilled the answer is 200; it is the empty list if no
\* chat document exists for the short identifier, and otherwise it holds
\* min(10, n) of the n stored messages, each once, none older than a stored
\* message that was left out, in ascending timestamp order.  (A rejected read is
\* answered 500.)
C7_History ==
    LET stored == whatsappChats[slice10(hist.phoneNumber)].messages
        got == hist.messages
    IN  (hist.pc = "done") =>
          IF hist.failed THEN hist.res = Send(NoResponse, 500, "Failed to fetch chat history")
          ELSE /\ hist.res = Send(NoResponse, 200, "messages")
               /\ IF ~whatsappChats[slice10(hist.phoneNumber)].exists
                  THEN got = << >>
                  ELSE /\ Len(got) = Min(HistoryLimit, Len(stored))
                       /\ \A k \in 1..Len(got) : \E n \in 1..Len(stored) : got[k] = stored[n]
                       /\ \A k, m \in 1..Len(got) : k # m => got[k] # got[m]
                       /\ \A k \in 1..(Len(got) - 1) :
                              got[k].timestamp <= got[k + 1].timestamp
                       /\ \A n \in 1..Len(stored) :
                              (\A k \in 1..Len(got) : got[k] # stored[n]) =>
                                  \A k \in 1..Len(got) :
                                      stored[n].timestamp <= got[k].timestamp

\* C7 witness: more than ten messages with differing timestamps are stored out of
\* order, and the answer holds ten of them, the oldest of the ten first
C7_Witness ==
    LET stored == whatsappChats[slice10(hist.phoneNumber)].messages
    IN  /\ hist.pc = "done"
        /\ ~hist.failed
        /\ Len(stored) > HistoryLimit
        /\ stored[1].timestamp > stored[Len(stored)].timestamp
        /\ Len(hist.messages) = HistoryLimit
        /\ hist.messages[1].timestamp < hist.messages[HistoryLimit].timestamp

\* C7 witness of the first half: messages are stored under a short identifier whose
\* chat document does not exist, and the answer is 200 with an empty list
C7_WitnessNoDocument ==
    /\ hist.pc = "done"
    /\ ~hist.failed
    /\ whatsappChats[slice10(hist.phoneNumber)].messages # << >>
    /\ ~whatsappChats[slice10(hist.phoneNumber)].exists
    /\ hist.res.status = 200
    /\ hist.messages = << >>

-----------------------------------------------------------------------------
(* Claims about the outbound send handlers, under SpecOutbound *)

\* a required body field of the outbound request is missing
FieldMissing(o) ==
    Falsy(o.phone) \/ (o.route = "chat/send" /\ ~Truthy(o.message))

\* C8: when a required body field is missing (the phone number; for the admin chat
\* send also the message) the handler answers 400 in its first run, and it has
\* made no call to the messaging platform and no document-store write.
C8_MissingField ==
    (out.pc # "idle" /\ FieldMissing(out)) =>
        /\ out.pc = "done"
        /\ out.res.sent = 1
        /\ out.res.status = 400
        /\ Len(platform) = out.callsBefore
        /\ whatsappChats = out.chatsBefore

\* C8 witness: after an admin chat send that went through, one without a message
\* was answered 400; the platform has seen the first call only
C8_Witness ==
    /\ out.n = 2
    /\ out.pc = "done"
    /\ out.route = "chat/send"
    /\ out.phone = Field(TRUE, UserA)
    /\ out.message = Undefined
    /\ out.res.status = 400
    /\ Len(platform) = 1
    /\ Len(whatsappChats[slice10(UserA)].messages) = 1

-----------------------------------------------------------------------------
(* Claims about the admin chat send, under SpecOutbound *)

\* the admin chat send under observation got past its validation and has answered
ChatSendDone == out.route = "chat/send" /\ out.pc = "done" /\ ~FieldMissing(out)

\* the outcome of the awaited call op of the outbound request, "none" if not reached
Outcome(o, op) ==
    IF \E k \in 1..Len(o.ev) : o.ev[k].op = op
    THEN o.ev[CHOOSE k \in 1..Len(o.ev) : o.ev[k].op = op].outcome
    ELSE "none"

\* the chats before the request with the admin's entry appended
WithAdminEntry(o) ==
    addMessage(o.chatsBefore, slice10(o.phone.val),
               ChatEntry("admin", o.message, o.timestamp))

\* C11 (as claimed): the admin chat send, when the platform accepted the POST, has
\* appended exactly one entry tagged "admin" under the short identifier, updated
\* last-updated and answered 200; when the POST failed it has answered 500 and left
\* the chat record unchanged.
C11_Claim ==
    ChatSendDone =>
        IF Outcome(out, "post") = "ok"
        THEN /\ whatsappChats =
                    setLastUpdated(WithAdminEntry(out), slice10(out.phone.val),
                                   out.timestamp)
             /\ out.res.status = 200
        ELSE /\ whatsappChats = out.chatsBefore
             /\ out.res.status = 500

-----------------------------------------------------------------------------
(* Claims about the status reports of part_001, under SpecIngest *)

\* how many awaited calls op the handler l made for item k
Calls(l, k, op) ==
    Cardinality({n \in 1..Len(l.ev) : l.ev[n].item = k /\ l.ev[n].op = op})

RECURSIVE ExpectedErrors(_, _)
\* the delivery-error records statuses 1..k must have left: one for every status
\* with a non-empty errors array whose persistence was not rejected
ExpectedErrors(l, k) ==
    IF k = 0 THEN << >>
    ELSE ExpectedErrors(l, k - 1)
         \o (IF l.body.statuses[k].errors = "one" /\ Fulfilled(l, k, "persist")
             THEN << [id |-> l.body.statuses[k].id, status |-> l.body.statuses[k].status] >>
             ELSE << >>)

\* C12: under part_001, for a payload with a value object, persistence of a delivery
\* error is attempted exactly once for every status entry with a non-empty errors
\* array and never for another entry; the records stored are those of the attempts
\* that were not rejected, in array order; a rejected attempt does not stop the
\* remaining statuses, and the answer is 200 whatever was rejected.
C12_StatusReports ==
    LET l == req[1]
        ss == l.body.statuses
    IN  (server = "part_001" /\ l.pc = "done" /\ l.body.shape = "value") =>
            /\ l.res.sent = 1 /\ l.res.status = 200
            /\ \A k \in 1..Len(ss) :
                  Calls(l, k, "persist") = (IF ss[k].errors = "one" THEN 1 ELSE 0)
            /\ waDeliveryErrors = ExpectedErrors(l, Len(ss))

\* C12 witness: of two status entries with an error payload the persistence of the
\* first was rejected and that of the second went through; the answer is 200
C12_Witness ==
    LET l == req[1]
    IN  /\ server = "part_001"
        /\ l.pc = "done"
        /\ Len(l.body.statuses) = 2
        /\ l.body.statuses[1].errors = "one"
        /\ Failed(l, 1, {"persist"})
        /\ Fulfilled(l, 2, "persist")
        /\ Len(waDeliveryErrors) = 1
        /\ l.res.status = 200

-----------------------------------------------------------------------------
(* Claims about the order of processing within one payload, under SpecIngest *)

\* the position of an awaited call in the processing of one message
OpRank(op) ==
    CASE op = "add" -> 1 [] op = "set" -> 2 [] op = "fetch" -> 3 [] op = "download" -> 4
      [] op = "upload" -> 5 [] op = "query" -> 6 [] op = "update" -> 7 [] OTHER -> 8

\* the awaited calls the handler l made for its messages, in the order they settled
MessageCalls(l) == SelectSeq(l.ev, LAMBDA e : e.op # "persist")

\* the mirror entries a handler at message l.i must have left: those of the messages
\* before it, and the text of message l.i once its text branch was entered
MirrorSoFar(l) ==
    LET msgs == l.body.messages
    IN  ExpectedMirror(l, l.i - 1)
        \o (IF l.i <= Len(msgs) /\ Truthy(msgs[l.i].text)
               /\ (msgs[l.i].hasFrom \/ server = "part_001")
            THEN << Shown(TextEntry(msgs[l.i], 0)) >>
            ELSE << >>)

\* the texts the chat log of sp must hold for a handler at message l.i
ChatSoFar(l, sp) ==
    LET msgs == l.body.messages
        before == SelectSeq(SubSeq(msgs, 1, l.i - 1),
                            LAMBDA m : Truthy(m.text) /\ shortPhone(m) = sp)
    IN  [n \in 1..Len(before) |-> before[n].text]
        \o (IF l.i <= Len(msgs) /\ Fulfilled(l, l.i, "add") /\ shortPhone(msgs[l.i]) = sp
            THEN << msgs[l.i].text >>
            ELSE << >>)

\* C13: the messages of one payload are processed one after another in array order.
\* At every moment of the handling, every awaited call made so far belongs to a
\* message up to the current one, the calls settled in array order of their messages
\* and, within one message, in the order add, set, fetch, download, upload, query,
\* update; the mirror holds the entries of the messages before the current one in
\* array order followed by the current one's text, and under part_000 every chat log
\* holds the texts of its sender in array order.
C13_ArrayOrder ==
    LET l == req[1]
        calls == MessageCalls(l)
    IN  (l.pc # "idle" /\ envelope(l.body) = "loop") =>
            /\ \A n \in 1..Len(calls) : calls[n].item <= l.i
            /\ \A n, m \in 1..Len(calls) :
                  n < m => \/ calls[n].item < calls[m].item
                           \/ /\ calls[n].item = calls[m].item
                              /\ OpRank(calls[n].op) < OpRank(calls[m].op)
            /\ [n \in 1..Len(receivedMessagesStore) |-> Shown(receivedMessagesStore[n])]
                  = MirrorSoFar(l)
            /\ \A sp \in ShortIds :
                  [n \in 1..Len(whatsappChats[sp].messages) |->
                      whatsappChats[sp].messages[n].text]
                    = (IF server = "part_000" THEN ChatSoFar(l, sp) ELSE << >>)

\* C13 witness: under part_000 a message with a text and an image and then a second
\* text of the same sender were handled without a failure; the mirror holds the
\* first text, the image and the second text, the chat log both texts, in that order
C13_Witness ==
    LET l == req[1]
    IN  /\ server = "part_000"
        /\ l.pc = "done"
        /\ l.res.status = 200
        /\ l.body.messages = << Msg(TRUE, UserA, "hi", "media_1"),
                                Msg(TRUE, UserA, "yo", Undefined) >>
        /\ Len(l.ev) = 9
        /\ \A n \in 1..Len(l.ev) : l.ev[n].ok
        /\ Len(receivedMessagesStore) = 3
        /\ receivedMessagesStore[2].kind = "image"
        /\ receivedMessagesStore[3].text = "yo"
        /\ Len(whatsappChats[slice10(UserA)].messages) = 2
        /\ whatsappChats[slice10(UserA)].messages[2].text = "yo"

-----------------------------------------------------------------------------
(* Claims about the text event, under SpecText *)

\* a chat entry without its timestamp
Entry(e) == [from |-> e.from, text |-> e.text, read |-> e.read, type |-> e.type]

\* C14: a payload of text messages handled without a rejected call leaves exactly
\* one mirror entry per message, in array order; under part_000 the chat record of
\* every short identifier (the last 10 characters of the sender id) holds what it
\* held before followed by exactly one entry tagged "user" per text of that sender,
\* and the parent document of a sender with a text exists, carries the timestamp of
\* the sender's last entry as last-updated and keeps every other field it had; the
\* chat record of a sender without a text is as it was.  The other server files
\* leave the chat records as they were.
C14_TextEvent ==
    LET l == req[1]
        msgs == l.body.messages
    IN  (l.pc = "done" /\ envelope(l.body) = "loop"
           /\ \A n \in 1..Len(l.ev) : l.ev[n].ok) =>
            /\ [n \in 1..Len(receivedMessagesStore) |-> Shown(receivedMessagesStore[n])]
                  = [n \in 1..Len(msgs) |-> Shown(TextEntry(msgs[n], 0))]
            /\ server # "part_000" => whatsappChats = l.chatsBefore
            /\ server = "part_000" =>
                 \A sp \in ShortIds :
                    LET texts == TextsFrom(l.body, sp)
                        old == l.chatsBefore[sp]
                        new == whatsappChats[sp]
                    IN  IF texts = << >>
                        THEN new = old
                        ELSE /\ Len(new.messages) = Len(old.messages) + Len(texts)
                             /\ SubSeq(new.messages, 1, Len(old.messages)) = old.messages
                             /\ \A n \in 1..Len(texts) :
                                   Entry(new.messages[Len(old.messages) + n])
                                     = Entry(ChatEntry("user", texts[n].text, 0))
                             /\ new.exists
                             /\ new.lastUpdated = new.messages[Len(new.messages)].timestamp
                             /\ new.other = old.other
            /\ DOMAIN whatsappChats = ShortIds

\* C14 witness: under part_000 a text of UserA, whose parent document existed with a
\* field of another system, and a text of UserB, who had no parent document, were
\* handled after the clock had moved on
C14_Witness ==
    LET l == req[1]
    IN  /\ server = "part_000"
        /\ l.pc = "done"
        /\ l.res.status = 200
        /\ Len(l.ev) = 4
        /\ \A n \in 1..Len(l.ev) : l.ev[n].ok
        /\ l.chatsBefore[slice10(UserA)].other = "Team A"
        /\ whatsappChats[slice10(UserA)].other = "Team A"
        /\ whatsappChats[slice10(UserA)].lastUpdated = 1
        /\ Len(whatsappChats[slice10(UserA)].messages) = 2
        /\ ~l.chatsBefore[UserB].exists
        /\ whatsappChats[UserB].exists
        /\ Len(whatsappChats[UserB].messages) = 1
        /\ Len(receivedMessagesStore) = 2

-----------------------------------------------------------------------------
(* Claims about the registration update, under SpecIngest *)

\* the URLs of the images of sender sp whose registration update went through, in
\* the order the updates settled
UpdatedUrls(l, sp) ==
    LET done == SelectSeq(l.ev, LAMBDA e : e.op = "update" /\ e.ok
                                     /\ shortPhone(l.body.messages[e.item]) = sp)
    IN  [n \in 1..Len(done) |-> Result(l, done[n].item, "upload")]

\* C15: at every moment, a registration that is not the first match of its phone
\* number is as it was created; the first match holds the URL it had before followed
\* by the URL of every image of that sender whose update went through, nothing
\* removed or replaced, and its verification status is "image_uploaded" as soon as
\* one update went through.
C15_FirstMatchOnly ==
    LET l == req[1]
    IN  \A k \in 1..Len(teamRegistrations) :
           LET d == teamRegistrations[k]
               urls == IF l.pc = "idle" THEN << >> ELSE UpdatedUrls(l, d.phoneNumber)
           IN  IF k # whereMatches(teamRegistrations, d.phoneNumber)[1]
               THEN d = RegDoc(d.phoneNumber)
               ELSE /\ d.images = RegDoc(d.phoneNumber).images \o urls
                    /\ d.verificationStatus =
                          (IF urls = << >> THEN "unset" ELSE "image_uploaded")

\* C15 witness: two images of UserA, who has two registrations, were handled without
\* a failure; the first registration holds the old URL and both new ones, the second
\* registration is untouched
C15_Witness ==
    LET l == req[1]
    IN  /\ l.pc = "done"
        /\ l.res.status = 200
        /\ Len(teamRegistrations) = 3
        /\ teamRegistrations[2].images = << 0, 1, 2 >>
        /\ teamRegistrations[2].verificationStatus = "image_uploaded"
        /\ teamRegistrations[3] = RegDoc(slice10(UserA))
        /\ teamRegistrations[1] = RegDoc(OtherPhone)

-----------------------------------------------------------------------------
(* Claims about the chat records under all their operations, under SpecChat *)

\* a step keeps every chat record, every entry stored in it and every field of the
\* parent document other than last-updated; a parent document is never removed
AppendOnlyStep ==
    \A sp \in DOMAIN whatsappChats :
       /\ sp \in DOMAIN whatsappChats'
       /\ Len(whatsappChats'[sp].messages) >= Len(whatsappChats[sp].messages)
       /\ SubSeq(whatsappChats'[sp].messages, 1, Len(whatsappChats[sp].messages))
             = whatsappChats[sp].messages
       /\ whatsappChats'[sp].other = whatsappChats[sp].other
       /\ whatsappChats[sp].exists => whatsappChats'[sp].exists

\* C16: under every interleaving of an inbound text payload, an admin chat send and
\* a history read, no step modifies or deletes a stored chat entry, removes a chat
\* record or rewrites a field of a parent document other than last-updated; a step
\* of the history read changes no chat record at all.
C16_AppendOnly ==
    [][AppendOnlyStep /\ (hist' # hist => whatsappChats' = whatsappChats)]_vars

\* C16 witness: the chat record of UserA, which started with one admin entry, holds
\* it still in first place after an inbound text, an admin chat send and a history
\* read that returned three entries
C16_Witness ==
    /\ req[1].pc = "done" /\ req[1].res.status = 200
    /\ out.pc = "done" /\ out.res.status = 200
    /\ hist.pc = "done" /\ Len(hist.messages) = 3
    /\ Len(whatsappChats[slice10(UserA)].messages) = 3
    /\ whatsappChats[slice10(UserA)].messages[1] = ChatEntry("admin", "welcome", 0)
    /\ whatsappChats[slice10(UserA)].other = "Team A"
    /\ whatsappChats[slice10(UserA)].lastUpdated = 1

-----------------------------------------------------------------------------
(* Claims about the media pipeline's failures, under SpecIngest *)

\* the mirror holds an image entry with URL u
Mirrored(u) ==
    \E n \in 1..Len(receivedMessagesStore) :
       receivedMessagesStore[n].kind = "image" /\ receivedMessagesStore[n].url = u

\* C17: at every moment, every object whose upload went through is in the object
\* store under the sender's folder, whatever failed afterwards, and the object store
\* holds nothing else; no pipeline step is called twice for one message and a
\* rejected step is the last call made for its message; an image whose registration
\* query or update was rejected has no mirror entry; and every image entry of the
\* mirror belongs to a message whose fetch, download, upload and query went through
\* and whose update went through if the query found a registration.
C17_NoRollback ==
    LET l == req[1]
        msgs == l.body.messages
        calls == MessageCalls(l)
    IN  l.pc # "idle" =>
          /\ Len(cloudinary) =
                Cardinality({n \in 1..Len(l.ev) : l.ev[n].op = "upload" /\ l.ev[n].ok})
          /\ \A k \in 1..Len(msgs) :
                /\ \A op \in PipelineOps : Calls(l, k, op) <= 1
                /\ Fulfilled(l, k, "upload") =>
                      /\ Result(l, k, "upload") \in 1..Len(cloudinary)
                      /\ cloudinary[Result(l, k, "upload")] =
                            [folder |-> shortPhone(msgs[k]), mediaId |-> msgs[k].image]
                /\ (Fulfilled(l, k, "upload") /\ Failed(l, k, {"query", "update"})) =>
                      ~Mirrored(Result(l, k, "upload"))
          /\ \A n \in 1..Len(calls) :
                (calls[n].op \in PipelineOps /\ ~calls[n].ok) =>
                   \A m \in (n + 1)..Len(calls) : calls[m].item # calls[n].item
          /\ \A n \in 1..Len(receivedMessagesStore) :
                receivedMessagesStore[n].kind = "image" =>
                   \E k \in 1..Len(msgs) :
                      /\ Fulfilled(l, k, "fetch") /\ Fulfilled(l, k, "download")
                      /\ Fulfilled(l, k, "upload") /\ Fulfilled(l, k, "query")
                      /\ Result(l, k, "upload") = receivedMessagesStore[n].url
                      /\ Result(l, k, "query") > 0 => Fulfilled(l, k, "update")
                      /\ receivedMessagesStore[n].mediaId = msgs[k].image
                      /\ receivedMessagesStore[n].from = msgs[k].from

\* C17 witness: the image of a registered sender was uploaded, the registration was
\* found and its update was rejected; the object is in the object store, the
\* registration is as it was, the mirror is empty and the answer is 200
C17_Witness ==
    LET l == req[1]
    IN  /\ l.pc = "done"
        /\ l.res.status = 200
        /\ l.body.messages = << Msg(TRUE, UserA, Undefined, "media_1") >>
        /\ Fulfilled(l, 1, "upload")
        /\ Fulfilled(l, 1, "query")
        /\ Result(l, 1, "query") = 2
        /\ Failed(l, 1, {"update"})
        /\ Len(cloudinary) = 1
        /\ Len(teamRegistrations) = 3
        /\ teamRegistrations[2] = RegDoc(slice10(UserA))
        /\ receivedMessagesStore = << >>

-----------------------------------------------------------------------------
(* Claims about concurrent deliveries, under SpecConcurrent *)

\* the handler r resumes from its await of set() and the call went through
SetWentThrough(r) ==
    /\ req[r].pc = "set"
    /\ req'[r] # req[r]
    /\ req'[r].ev[Len(req[r].ev) + 1].ok

\* C18: nothing orders two deliveries for one short identifier.  Every set() that
\* goes through writes its own handler's timestamp as last-updated, whatever stamp
\* the parent document carries (last write wins), and every step leaves the mirror
\* as it was or appends to it, whichever handler takes the step.
C18_Uncoordinated ==
    [][/\ \A r \in {1, 2} :
             SetWentThrough(r) =>
                whatsappChats'[shortPhone(CurMsg(r))].lastUpdated = req[r].timestamp
       /\ Len(receivedMessagesStore') >= Len(receivedMessagesStore)
       /\ SubSeq(receivedMessagesStore', 1, Len(receivedMessagesStore))
             = receivedMessagesStore]_vars

\* the newest timestamp among the entries of a chat log
Newest(messages) ==
    CHOOSE t \in {messages[n].timestamp : n \in 1..Len(messages)} :
       \A n \in 1..Len(messages) : messages[n].timestamp <= t

\* C18 witness: under part_000 a delivery with one text and a delivery with two
\* texts of the same sender were both answered 200 without a rejected call; the
\* parent's last-updated stamp is older than the newest entry of the chat log, and
\* the mirror holds the text of the first delivery between the two of the second
C18_Witness ==
    /\ server = "part_000"
    /\ req[1].pc = "done" /\ req[1].res.status = 200
    /\ req[2].pc = "done" /\ req[2].res.status = 200
    /\ \A r \in {1, 2} : \A n \in 1..Len(req[r].ev) : req[r].ev[n].ok
    /\ [n \in 1..Len(req[1].body.messages) |-> req[1].body.messages[n].text] = << "hi" >>
    /\ [n \in 1..Len(req[2].body.messages) |-> req[2].body.messages[n].text]
          = << "yo", "yo" >>
    /\ [n \in 1..Len(receivedMessagesStore) |-> receivedMessagesStore[n].text]
          = << "yo", "hi", "yo" >>
    /\ whatsappChats[slice10(UserA)].messages # << >>
    /\ whatsappChats[slice10(UserA)].lastUpdated
          < Newest(whatsappChats[slice10(UserA)].messages)

-----------------------------------------------------------------------------
(* Claims about the top-level catch of POST /webhook, under SpecIngest *)

\* the envelope raised: src/index.js dereferences entry[0].changes[0] unguarded
EnvelopeRaised(l) == envelope(l.body) = "throw"

\* message l.i raised outside the media pipeline's try: from.slice on a message
\* without a sender (src/index.js, part_000), or a rejected chat-log call (part_000)
MessageRaised(l) ==
    /\ envelope(l.body) = "loop"
    /\ l.i \in 1..Len(l.body.messages)
    /\ \/ ~l.body.messages[l.i].hasFrom /\ server # "part_001"
       \/ Failed(l, l.i, ChatOps)

\* C19: a handler that has answered has answered 500 exactly when an exception
\* escaped the per-item handling, and then: the body is the generic error, one
\* response was sent, no call was made twice, no call was made for a later message
\* or for a status, and the stores hold what the earlier items and the raising item
\* had written before the exception (for a raising envelope: nothing).
C19_TopLevelCatch ==
    LET l == req[1]
        msgs == l.body.messages
    IN  l.pc = "done" =>
          /\ (l.res.status = 500) <=> (EnvelopeRaised(l) \/ MessageRaised(l))
          /\ EnvelopeRaised(l) =>
                /\ l.res = Send(NoResponse, 500, "Internal Server Error")
                /\ l.ev = << >>
                /\ StoresUntouched
          /\ MessageRaised(l) =>
                /\ l.res = Send(NoResponse, 500, "Internal Server Error")
                /\ \A n \in 1..Len(l.ev) : l.ev[n].op # "persist" /\ l.ev[n].item <= l.i
                /\ \A k \in 1..Len(msgs), op \in ChatOps \cup PipelineOps :
                      Calls(l, k, op) <= 1
                /\ [n \in 1..Len(receivedMessagesStore) |-> Shown(receivedMessagesStore[n])]
                      = MirrorSoFar(l)
                /\ \A sp \in ShortIds :
                      [n \in 1..Len(whatsappChats[sp].messages) |->
                          whatsappChats[sp].messages[n].text]
                        = (IF server = "part_000" THEN ChatSoFar(l, sp) ELSE << >>)
                /\ \A k \in 1..(l.i - 1) :
                      Fulfilled(l, k, "upload") =>
                         /\ Result(l, k, "upload") \in 1..Len(cloudinary)
                         /\ cloudinary[Result(l, k, "upload")].mediaId = msgs[k].image
                /\ \A k \in 1..(l.i - 1) :
                      Fulfilled(l, k, "update") =>
                         \E d \in 1..Len(teamRegistrations) :
                            \E n \in 1..Len(teamRegistrations[d].images) :
                               teamRegistrations[d].images[n] = Result(l, k, "upload")
                /\ waDeliveryErrors = << >>

\* C19 witness: the image of a registered sender was uploaded, recorded and
\* mirrored, then a message without a sender raised; the answer is 500 and the
\* object, the registration update and the mirror entry are kept
C19_Witness ==
    LET l == req[1]
    IN  /\ l.pc = "done"
        /\ l.res.status = 500
        /\ l.body.messages = << Msg(TRUE, UserA, Undefined, "media_1"),
                                Msg(FALSE, << >>, "hi", Undefined) >>
        /\ l.i = 2
        /\ Fulfilled(l, 1, "update")
        /\ Len(cloudinary) = 1
        /\ Len(teamRegistrations) = 3
        /\ teamRegistrations[2].images = << 0, 1 >>
        /\ Len(receivedMessagesStore) = 1
        /\ receivedMessagesStore[1].kind = "image"

-----------------------------------------------------------------------------
(* Claims about retries, under SpecCalls *)

TemplateRoutes == {"send-whatsapp"} \cup VerifyRoutes

\* C20: nothing is retried.  The outbound requests handled so far have made one
\* POST each at most, the one under way exactly one once its fields were accepted,
\* and its POST settled once at most; the media pipeline made each of its calls
\* once at most for a message.  When the POST of a template route failed, the
\* handler has answered 500 with the remote error body if the platform sent one and
\* with the transport error message otherwise (as JSON text in handleVerify).
C20_NoRetry ==
    /\ Len(platform) <= out.n
    /\ out.pc # "idle" =>
          /\ Len(platform) = out.callsBefore + (IF FieldMissing(out) THEN 0 ELSE 1)
          /\ Cardinality({n \in 1..Len(out.ev) : out.ev[n].op = "post"}) <= 1
    /\ (out.pc = "done" /\ out.route \in TemplateRoutes
          /\ Outcome(out, "post") \in {"rejected", "network"}) =>
          /\ out.res.sent = 1
          /\ out.res.status = 500
          /\ out.details.of =
                (IF Outcome(out, "post") = "rejected" THEN "remote" ELSE "transport")
          /\ out.details.json = (out.route \in VerifyRoutes)
    /\ req[1].pc # "idle" =>
          \A k \in 1..Len(req[1].body.messages), op \in PipelineOps :
             Calls(req[1], k, op) <= 1

\* C20 witness: after an image delivery whose download was rejected, part_001's
\* handleVerify made one POST, the platform answered with an error body, and the
\* handler answered 500 carrying it
C20_Witness ==
    /\ server = "part_001"
    /\ req[1].pc = "done"
    /\ Failed(req[1], 1, {"download"})
    /\ Calls(req[1], 1, "fetch") = 1
    /\ out.pc = "done"
    /\ out.route = "verify/verified"
    /\ Outcome(out, "post") = "rejected"
    /\ out.res.status = 500
    /\ out.details = [of |-> "remote", wrapped |-> FALSE, json |-> TRUE]
    /\ Len(platform) = 1

-----------------------------------------------------------------------------
(* Claims about the image event and the chat log, under SpecImage *)

\* C21: while and after a payload of images without text is handled, whether its
\* pipelines succeed or fail, every chat record (entries, last-updated stamp, every
\* other field) is as it was, and so are the delivery-error log and the messaging
\* platform; what changes is the mirror, the registration records and the object
\* store, which holds exactly the images whose upload went through.
C21_ChatLogUntouched ==
    req[1].pc # "idle" =>
        /\ whatsappChats = req[1].chatsBefore
        /\ Len(cloudinary) =
              Cardinality({n \in 1..Len(req[1].ev) :
                              req[1].ev[n].op = "upload" /\ req[1].ev[n].ok})
        /\ waDeliveryErrors = << >>
        /\ platform = << >>

\* C21 witness: under part_000 two images of UserA, who has a chat record and a
\* registration, were handled, the first recorded and the second failing at its
\* download; mirror, registration and object store have changed, the chat record
\* has not
C21_Witness ==
    LET l == req[1]
    IN  /\ server = "part_000"
        /\ l.pc = "done"
        /\ l.res.status = 200
        /\ Len(l.body.messages) = 2
        /\ Fulfilled(l, 1, "update")
        /\ Failed(l, 2, {"download"})
        /\ Len(receivedMessagesStore) = 1
        /\ Len(cloudinary) = 1
        /\ Len(teamRegistrations) = 3
        /\ teamRegistrations[2].verificationStatus = "image_uploaded"
        /\ l.chatsBefore[slice10(UserA)].exists
        /\ whatsappChats = l.chatsBefore

-----------------------------------------------------------------------------
(* Claims about the response of POST /webhook, under SpecIngestFair *)

-----------------------------------------------------------------------------
(* Claims about the parent chat document, under SpecChat *)

\* C23 (as claimed): in every reachable state, a chat record that holds a message
\* entry has its parent document, and a history read that found no parent document
\* and answered with the empty list did so for a short identifier without stored
\* entries.
C23_Claim ==
    /\ \A sp \in DOMAIN whatsappChats :
          whatsappChats[sp].messages # << >> => whatsappChats[sp].exists
    /\ (hist.pc = "done" /\ ~hist.failed /\ hist.messages = << >>
          /\ ~chatOf(whatsappChats, slice10(hist.phoneNumber)).exists) =>
          chatOf(whatsappChats, slice10(hist.phoneNumber)).messages = << >>

-----------------------------------------------------------------------------
(* Claims about the admin chat log and the platform, under SpecOutbound *)

\* the chat log of the request's short identifier holds the admin entry of the request
AdminEntryRecorded(o) ==
    LET log == chatOf(whatsappChats, slice10(o.phone.val)).messages
    IN  \E n \in 1..Len(log) : log[n] = ChatEntry("admin", o.message, o.timestamp)

\* C24 (as claimed): an admin chat send that has answered has recorded its message
\* as an entry tagged "admin" if the platform accepted the POST, and if it answered
\* 500 the platform did not accept the POST.
C24_Claim ==
    ChatSendDone =>
        /\ Outcome(out, "post") = "ok" => AdminEntryRecorded(out)
        /\ out.res.status = 500 => Outcome(out, "post") # "ok"

-----------------------------------------------------------------------------
(* Claims about appends of concurrent deliveries, under SpecConcurrent *)

\* the elements of s at the positions in P, in order
Pick(s, P) == SelectSeq([n \in 1..Len(s) |-> IF n \in P THEN << s[n] >> ELSE << >>],
                        LAMBDA x : x # << >>)

\* s holds the elements of a and of b, each exactly once, those of a in the order
\* of a and those of b in the order of b
IsMerge(s, a, b) ==
    /\ Len(s) = Len(a) + Len(b)
    /\ \E P \in SUBSET (1..Len(s)) :
          /\ Pick(s, P) = [n \in 1..Len(a) |-> << a[n] >>]
          /\ Pick(s, (1..Len(s)) \ P) = [n \in 1..Len(b) |-> << b[n] >>]

\* the texts of the messages of a payload
Texts(body) == [n \in 1..Len(body.messages) |-> body.messages[n].text]

\* the texts of the entries a chat log holds from users
UserTexts(log) ==
    LET es == SelectSeq(log, LAMBDA e : e.from = "user")
    IN  [n \in 1..Len(es) |-> es[n].text]

\* C25: when two deliveries of texts of one sender, handled interleaved, have both
\* been answered and no call was rejected, the mirror holds every text of both
\* exactly once, the texts of each delivery in their array order; under part_000
\* the same holds for the entries tagged "user" of the sender's chat log.
C25_NoLostAppend ==
    (/\ req[1].pc = "done" /\ req[2].pc = "done"
     /\ \A r \in {1, 2} : \A n \in 1..Len(req[r].ev) : req[r].ev[n].ok) =>
        /\ IsMerge([n \in 1..Len(receivedMessagesStore) |-> receivedMessagesStore[n].text],
                   Texts(req[1].body), Texts(req[2].body))
        /\ server = "part_000" =>
              IsMerge(UserTexts(whatsappChats[slice10(UserA)].messages),
                      Texts(req[1].body), Texts(req[2].body))
        /\ req[1].res.status = 200 /\ req[2].res.status = 200

\* C25 witness: under part_000 a delivery of two texts "hi" and a delivery of one
\* text "yo" ran interleaved without a rejected call; the mirror holds hi, yo, hi
\* and the chat log yo, hi, hi
C25_Witness ==
    /\ server = "part_000"
    /\ req[1].pc = "done" /\ req[2].pc = "done"
    /\ \A r \in {1, 2} : \A n \in 1..Len(req[r].ev) : req[r].ev[n].ok
    /\ Texts(req[1].body) = << "hi", "hi" >>
    /\ Texts(req[2].body) = << "yo" >>
    /\ [n \in 1..Len(receivedMessagesStore) |-> receivedMessagesStore[n].text]
          = << "hi", "yo", "hi" >>
    /\ UserTexts(whatsappChats[slice10(UserA)].messages) = << "yo", "hi", "hi" >>

-----------------------------------------------------------------------------
(* Claims about registrations under concurrent image deliveries, under SpecImages *)

\* both deliveries are answered, their images come from one sender, and the
\* registration update of each went through
BothPipelinesSucceeded ==
    /\ req[1].pc = "done" /\ req[2].pc = "done"
    /\ shortPhone(req[1].body.messages[1]) = shortPhone(req[2].body.messages[1])
    /\ Fulfilled(req[1], 1, "update") /\ Fulfilled(req[2], 1, "update")

\* C26: when two image deliveries of one sender, handled interleaved, have both been
\* answered and the registration update of each went through, the first matching
\* registration holds the URL it had before and the two uploaded URLs, which differ,
\* and its verification status is "image_uploaded".
C26_BothUrlsKept ==
    BothPipelinesSucceeded =>
        LET sp == shortPhone(req[1].body.messages[1])
            d == teamRegistrations[whereMatches(teamRegistrations, sp)[1]]
            u1 == Result(req[1], 1, "upload")
            u2 == Result(req[2], 1, "upload")
        IN  /\ u1 # u2
            /\ \E n \in 1..Len(d.images) : d.images[n] = u1
            /\ \E n \in 1..Len(d.images) : d.images[n] = u2
            /\ d.images \in {RegDoc(sp).images \o << u1, u2 >>,
                             RegDoc(sp).images \o << u2, u1 >>}
            /\ d.verificationStatus = "image_uploaded"
            /\ req[1].res.status = 200 /\ req[2].res.status = 200

\* C26 witness: the two pipelines crossed; the first delivery uploaded first and
\* updated last, and the registration holds both URLs, the second delivery's first
C26_Witness ==
    /\ BothPipelinesSucceeded
    /\ Result(req[1], 1, "upload") = 1
    /\ Result(req[2], 1, "upload") = 2
    /\ Len(teamRegistrations) = 3
    /\ teamRegistrations[2].images = << 0, 2, 1 >>
    /\ teamRegistrations[2].verificationStatus = "image_uploaded"

=============================================================================
